---------------------------- MODULE Spec2Model ----------------------------
(***************************************************************************)
(* A model of clean_advancement_data.py: the column-name normaliser, the   *)
(* global cleanup of one loaded table, the type coercions and the          *)
(* dimension and fact builders.                                            *)
(*                                                                         *)
(* Strings are sequences of one-character strings, so that strip, replace, *)
(* the regular expressions and the number parser are computed character by *)
(* character.  A DataFrame is a sequence of columns; a column has a name,  *)
(* a dtype and one value per row.                                          *)
(***************************************************************************)
EXTENDS Integers, Sequences, FiniteSets, TLC

VARIABLES
    pc,              \* position of the run inside the specification at hand
    name,            \* a raw column name handed to to_upper_snake_case
    canon,           \* to_upper_snake_case(name)
    canon2,          \* to_upper_snake_case(canon)
    csv,             \* the source file read by load_csv_with_strings
    src,             \* the DataFrame(s) handed to the operation under study
    df,              \* the DataFrame the operation returned
    parsing_issues,  \* the module-level dict of issue bucket -> list
    console,         \* what print() has written
    files,           \* whether BASE_DIR exists and the source files in it
    dataframes,      \* main(): the dict of loaded tables
    output_tables,   \* main(): the dict of built tables
    exported,        \* the tables export_tables has written
    step             \* the turn of the loop main() is in

vars == <<pc, name, canon, canon2, csv, src, df, parsing_issues, console,
          files, dataframes, output_tables, exported, step>>

\* the variables of main()
mainVars == <<files, dataframes, output_tables, exported, step>>

-----------------------------------------------------------------------------
(* Characters and strings *)

LowerChars == <<"a","b","c","d","e","f","g","h","i","j","k","l","m",
                "n","o","p","q","r","s","t","u","v","w","x","y","z">>
UpperChars == <<"A","B","C","D","E","F","G","H","I","J","K","L","M",
                "N","O","P","Q","R","S","T","U","V","W","X","Y","Z">>
DigitChars == <<"0","1","2","3","4","5","6","7","8","9">>

\* the characters str.strip() removes and the regex class \s matches
WhitespaceChars == {" ", "\t", "\n"}

IsLower(c) == \E i \in 1..26 : LowerChars[i] = c
IsUpper(c) == \E i \in 1..26 : UpperChars[i] = c
IsDigit(c) == \E i \in 1..10 : DigitChars[i] = c
IsSpace(c) == c \in WhitespaceChars

UpperOf(c) == IF IsLower(c)
              THEN UpperChars[CHOOSE i \in 1..26 : LowerChars[i] = c]
              ELSE c

\* str.upper()
StrUpper(s) == [i \in 1..Len(s) |-> UpperOf(s[i])]

RECURSIVE LStrip(_)
LStrip(s) == IF s # <<>> /\ IsSpace(Head(s)) THEN LStrip(Tail(s)) ELSE s

RECURSIVE RStrip(_)
RStrip(s) == IF s # <<>> /\ IsSpace(s[Len(s)])
             THEN RStrip(SubSeq(s, 1, Len(s) - 1))
             ELSE s

\* str.strip()
StrStrip(s) == RStrip(LStrip(s))

\* str.replace(" ", "_")
ReplaceSpaces(s) == [i \in 1..Len(s) |-> IF s[i] = " " THEN "_" ELSE s[i]]

\* re.sub(r"([a-z])([A-Z])", r"\1_\2", s): leftmost non-overlapping matches
RECURSIVE CamelSplit(_)
CamelSplit(s) ==
    IF Len(s) < 2 THEN s
    ELSE IF IsLower(s[1]) /\ IsUpper(s[2])
         THEN <<s[1], "_", s[2]>> \o CamelSplit(SubSeq(s, 3, Len(s)))
         ELSE <<s[1]>> \o CamelSplit(Tail(s))

\* re.sub(r"_+", "_", s)
RECURSIVE CollapseUnderscores(_)
CollapseUnderscores(s) ==
    IF Len(s) < 2 THEN s
    ELSE IF s[1] = "_" /\ s[2] = "_"
         THEN CollapseUnderscores(Tail(s))
         ELSE <<s[1]>> \o CollapseUnderscores(Tail(s))

\* the same steps with the underscore collapse moved before the space
\* replacement
SnakeCollapseFirst(column_name) ==
    StrUpper(CamelSplit(ReplaceSpaces(CollapseUnderscores(StrStrip(column_name)))))

to_upper_snake_case(column_name) ==
    StrUpper(CollapseUnderscores(CamelSplit(ReplaceSpaces(StrStrip(column_name)))))

-----------------------------------------------------------------------------
(* Configuration: the rule tables of the module, as character sequences *)

METADATA_COLUMNS_TO_DROP == <<
    <<"U","S","E","R","_","N","A","M","E">>,
    <<"J","O","B","_","N","A","M","E">>,
    <<"J","O","B","_","T","I","M","E">>,
    <<"A","P","P","R","O","W","V","E","R","S","I","O","N">>
>>

ID_CODE_COLUMNS == <<
    <<"I","D","_","N","U","M">>,
    <<"D","O","N","O","R","_","I","D">>,
    <<"C","A","M","P","A","I","G","N","_","C","D","E">>,
    <<"S","O","L","I","C","I","T","_","C","D","E">>,
    <<"G","I","F","T","_","G","R","O","U","P","_","N","U","M">>,
    <<"G","I","F","T","_","N","U","M">>,
    <<"G","I","F","T","_","T","R","A","N","_","N","U","M">>,
    <<"A","P","P","I","D">>,
    <<"C","A","T","_","C","O","M","P","_","1">>,
    <<"C","A","T","_","C","O","M","P","_","2">>
>>

explicit_date_cols == <<
    <<"G","I","F","T","_","D","T","E">>,
    <<"M","A","T","U","R","I","T","Y","_","D","T","E">>,
    <<"F","I","R","S","T","_","G","I","F","T","_","D","T","E">>,
    <<"L","A","S","T","_","G","I","F","T","_","D","T","E">>,
    <<"L","A","R","G","E","S","T","_","G","I","F","T","_","D","T","E">>,
    <<"S","M","A","L","L","E","S","T","_","G","I","F","T","_","D","T","E">>,
    <<"C","A","M","P","_","S","T","A","R","T","_","D","A","T","E">>,
    <<"C","A","M","P","_","E","N","D","_","D","A","T","E">>,
    <<"V","A","L","I","D","_","U","N","T","I","L","_","D","T","E">>,
    <<"A","C","K","_","D","A","T","E">>,
    <<"E","X","P","I","R","E","_","D","T","E">>,
    <<"L","A","S","T","_","U","P","D","A","T","E","_","D","T","E">>,
    <<"L","A","S","T","_","V","I","S","I","T","_","D","T","E">>,
    <<"N","E","X","T","_","V","I","S","I","T","_","D","T","E">>,
    <<"R","E","A","S","O","N","_","D","T","E">>,
    <<"U","D","E","F","_","D","T","E","_","1">>,
    <<"U","D","E","F","_","D","T","E","_","2">>,
    <<"U","D","E","F","_","D","T","E","_","3">>,
    <<"U","S","E","R","_","D","E","F","_","D","T","E","_","1">>,
    <<"U","S","E","R","_","D","E","F","_","D","T","E","_","2">>,
    <<"U","S","E","R","_","D","E","F","_","D","T","E","_","3">>
>>

name_cols == <<
    <<"I","D","_","N","U","M">>,
    <<"L","A","S","T","_","N","A","M","E">>,
    <<"F","I","R","S","T","_","N","A","M","E">>,
    <<"M","I","D","D","L","E","_","N","A","M","E">>,
    <<"P","R","E","F","I","X">>,
    <<"S","U","F","F","I","X">>
>>

donor_cols_to_keep == <<
    <<"I","D","_","N","U","M">>,
    <<"P","R","E","F","_","M","A","I","L","_","N","M">>,
    <<"P","R","E","F","_","F","S","T","_","N","M">>,
    <<"P","R","E","F","_","L","S","T","_","N","M">>,
    <<"D","O","N","O","R","_","M","A","I","L","_","C","O","D","E">>,
    <<"E","S","T","A","T","E","_","P","L","A","N","_","F","L","R">>,
    <<"E","S","T","A","T","E","_","P","L","A","N","_","D","O","C">>,
    <<"Y","R","S","_","C","O","N","T","_","G","I","V","I","N","G">>,
    <<"N","U","M","_","G","I","V","I","N","G","_","Y","R","S">>,
    <<"A","V","G","_","G","I","F","T","_","S","I","Z","E">>,
    <<"A","N","O","N","_","D","O","N","O","R","_","F","L","A","G">>,
    <<"D","O","N","O","R","_","S","E","L","E","C","T">>,
    <<"A","C","T","I","V","E","_","F","L","A","G">>,
    <<"S","T","O","P","_","M","A","I","L","_","F","L","A","G">>,
    <<"C","U","R","R","_","A","D","D","R","_","C","D","E">>,
    <<"R","E","C","E","I","P","T","_","S","A","L","U","T">>,
    <<"S","I","N","G","L","E","_","S","A","L","U","T">>,
    <<"J","O","I","N","T","_","S","A","L","U","T">>,
    <<"F","I","R","S","T","_","G","I","F","T","_","D","T","E">>,
    <<"F","I","R","S","T","_","G","I","F","T","_","A","M","T">>,
    <<"L","A","S","T","_","G","I","F","T","_","D","T","E">>,
    <<"L","A","S","T","_","G","I","F","T","_","A","M","T">>,
    <<"L","A","R","G","E","S","T","_","G","I","F","T","_","D","T","E">>,
    <<"L","A","R","G","E","S","T","_","G","I","F","T","_","A","M","T">>,
    <<"S","M","A","L","L","E","S","T","_","G","I","F","T","_","D","T","E">>,
    <<"S","M","A","L","L","E","S","T","_","G","I","F","T","_","A","M","T">>
>>

core_cols == <<
    <<"I","D","_","N","U","M">>,
    <<"R","E","U","N","I","O","N","_","Y","R","_","1">>,
    <<"R","E","U","N","I","O","N","_","Y","R","_","2">>,
    <<"R","E","U","N","I","O","N","_","Y","R","_","3">>
>>

other_cols == <<
    <<"L","A","S","T","_","U","P","D","A","T","E","_","D","T","E">>,
    <<"L","A","S","T","_","V","I","S","I","T","_","D","T","E">>,
    <<"N","E","X","T","_","V","I","S","I","T","_","D","T","E">>,
    <<"C","U","R","R","_","A","T","T","I","T","U","D","E">>,
    <<"S","T","O","P","_","A","L","U","M","_","M","A","I","L">>,
    <<"C","U","R","R","_","A","D","D","R","_","C","D","E">>,
    <<"W","O","R","K","_","A","D","D","R","_","C","D","E">>,
    <<"E","M","A","I","L","_","1">>,
    <<"E","M","A","I","L","_","2">>,
    <<"C","I","T","Y","_","S","I","Z","E">>
>>

campaign_cols_to_keep == <<
    <<"C","A","M","P","A","I","G","N","_","C","D","E">>,
    <<"C","A","M","P","A","I","G","N","_","D","E","S","C">>,
    <<"P","I","E","C","E","S","_","R","E","T","_","G","O","A","L">>,
    <<"P","I","E","C","E","S","_","R","E","T","_","A","C","T","U","A","L">>,
    <<"E","X","P","E","N","S","E","S","_","B","U","D","G","E","T">>,
    <<"E","X","P","E","N","S","E","S","_","A","C","T","U","A","L">>,
    <<"C","A","M","P","A","N","_","A","M","T","_","G","O","A","L">>,
    <<"C","A","M","P","A","N","_","A","M","T","_","A","C","T","U","A","L">>,
    <<"C","A","M","P","_","C","O","N","T","A","C","T","_","I","D","_","N","U","M">>,
    <<"C","A","M","P","_","S","T","A","R","T","_","D","A","T","E">>,
    <<"C","A","M","P","_","E","N","D","_","D","A","T","E">>,
    <<"O","N","L","I","N","E","_","G","I","V","I","N","G","_","A","V","A","I","L">>,
    <<"O","N","L","I","N","E","_","G","I","V","I","N","G","_","D","E","S","C">>
>>

gift_category_cols_to_keep == <<
    <<"A","P","P","I","D">>,
    <<"C","A","T","_","C","O","M","P","_","1">>,
    <<"C","A","T","_","C","O","M","P","_","2">>,
    <<"G","I","F","T","_","C","A","T","_","D","E","S","C">>,
    <<"C","A","M","P","A","I","G","N","_","C","D","E">>,
    <<"F","I","N","_","A","I","D","_","E","L","E","M","E","N","T">>,
    <<"M","E","M","_","H","O","N","O","R","_","C","D","E">>,
    <<"F","U","N","D","_","T","Y","P","E">>,
    <<"G","I","V","I","N","G","_","C","L","U","B","_","C","D","E">>,
    <<"D","E","S","I","G","N","A","T","I","O","N","_","C","D","E">>,
    <<"C","A","S","E","_","G","R","O","U","P">>,
    <<"C","H","A","R","I","T","A","B","L","E","_","F","L","A","G">>,
    <<"O","N","L","I","N","E","_","G","I","V","I","N","G","_","A","V","A","I","L">>,
    <<"O","N","L","I","N","E","_","G","I","V","I","N","G","_","D","E","S","C">>,
    <<"P","R","O","J","E","C","T","_","C","O","D","E">>
>>

solicit_cols_to_keep == <<
    <<"S","O","L","I","C","I","T","_","C","D","E">>,
    <<"D","E","S","C","R","I","P","T","I","O","N">>
>>

tran_cols == <<
    <<"G","I","F","T","_","G","R","O","U","P","_","N","U","M">>,
    <<"G","I","F","T","_","N","U","M">>,
    <<"G","I","F","T","_","T","R","A","N","_","N","U","M">>,
    <<"D","O","N","O","R","_","I","D">>,
    <<"C","A","T","_","C","O","M","P","_","1">>,
    <<"C","A","T","_","C","O","M","P","_","2">>,
    <<"M","E","M","_","H","O","N","O","R","_","C","D","E">>,
    <<"A","I","D","_","E","L","E","M","E","N","T">>,
    <<"C","A","M","P","A","I","G","N","_","C","D","E">>,
    <<"S","O","L","I","C","I","T","_","C","D","E">>,
    <<"G","I","V","I","N","G","_","C","L","U","B","_","C","D","E">>,
    <<"G","I","F","T","_","D","T","E">>,
    <<"G","I","F","T","_","T","R","A","N","_","A","M","T">>,
    <<"G","I","V","I","N","G","_","R","E","L","A","T","I","O","N">>,
    <<"C","H","A","R","I","T","A","B","L","E","_","Y","N">>,
    <<"G","I","F","T","_","T","R","A","N","_","S","T","S">>,
    <<"S","O","F","T","_","C","R","E","D","I","T","_","Y","N">>,
    <<"G","I","F","T","_","C","L","A","S","S">>,
    <<"S","U","B","_","C","L","A","S","S","_","C","D","E">>,
    <<"G","I","F","T","_","S","E","T","_","C","D","E">>,
    <<"A","N","O","N","_","G","I","F","T","_","T","R","A","N">>,
    <<"N","O","T","A","T","I","O","N","_","1">>,
    <<"N","O","T","A","T","I","O","N","_","2">>,
    <<"R","E","S","T","R","_","T","Y","P","E">>,
    <<"C","O","N","T","R","I","B","_","T","Y","P","E">>,
    <<"M","A","T","U","R","I","T","Y","_","A","M","T">>,
    <<"M","A","T","U","R","I","T","Y","_","D","T","E">>,
    <<"M","A","T","C","H","_","C","O","_","I","D">>,
    <<"S","O","L","I","C","I","T","O","R","_","I","D">>
>>

master_cols == <<
    <<"G","I","F","T","_","G","R","O","U","P","_","N","U","M">>,
    <<"G","I","F","T","_","N","U","M">>,
    <<"G","I","F","T","_","A","M","T">>,
    <<"L","E","T","T","E","R","_","T","O","_","S","E","N","D">>,
    <<"P","R","O","P","O","S","A","L","_","N","U","M">>,
    <<"B","A","N","K","_","I","D">>,
    <<"C","H","E","C","K","_","C","C","_","N","U","M">>,
    <<"L","E","G","A","L","_","T","E","N","D","E","R">>,
    <<"E","X","P","I","R","E","_","D","T","E">>,
    <<"A","C","K","_","D","A","T","E">>,
    <<"P","R","I","N","T","_","R","E","C","P","T","_","Y","N">>,
    <<"I","M","M","E","D","_","L","E","T","T","E","R","_","Y","N">>,
    <<"B","O","O","K","_","Y","N">>,
    <<"G","I","F","T","_","M","A","S","T","E","R","_","S","T","S">>
>>

join_keys == <<
    <<"G","I","F","T","_","G","R","O","U","P","_","N","U","M">>,
    <<"G","I","F","T","_","N","U","M">>
>>


\* [f"EDUCATION_INT_{i:02d}" for i in range(1, 7)]
edu_cols == [i \in 1..6 |->
    <<"E","D","U","C","A","T","I","O","N","_","I","N","T","_","0">>
        \o <<DigitChars[i + 1]>>]

all_desired_cols == core_cols \o edu_cols \o other_cols

\* the column names the natural keys and the claims refer to
ID_NUM         == ID_CODE_COLUMNS[1]
DONOR_ID       == ID_CODE_COLUMNS[2]
CAMPAIGN_CDE   == ID_CODE_COLUMNS[3]
SOLICIT_CDE    == ID_CODE_COLUMNS[4]
GIFT_GROUP_NUM == ID_CODE_COLUMNS[5]
GIFT_NUM       == ID_CODE_COLUMNS[6]
GIFT_TRAN_NUM  == ID_CODE_COLUMNS[7]
APPID          == ID_CODE_COLUMNS[8]
CAT_COMP_1     == ID_CODE_COLUMNS[9]
CAT_COMP_2     == ID_CODE_COLUMNS[10]
YR_CDE         == <<"Y","R","_","C","D","E">>
YEAR_TYPE      == <<"Y","E","A","R","_","T","Y","P","E">>

\* NATURAL_KEYS, a dict from table name to its key columns
NATURAL_KEYS == [
    alumni_master  |-> <<ID_NUM>>,
    campaign       |-> <<CAMPAIGN_CDE>>,
    donor_camp_sum |-> <<ID_NUM, CAMPAIGN_CDE, YR_CDE, YEAR_TYPE>>,
    donor_master   |-> <<ID_NUM>>,
    donor_year_sum |-> <<ID_NUM, YR_CDE, YEAR_TYPE>>,
    gift_category  |-> <<APPID, CAT_COMP_1, CAT_COMP_2>>,
    gift_master    |-> <<GIFT_GROUP_NUM, GIFT_NUM>>,
    gift_tran      |-> <<GIFT_GROUP_NUM, GIFT_NUM, GIFT_TRAN_NUM>>,
    name_master    |-> <<ID_NUM>>,
    solicit_def    |-> <<SOLICIT_CDE>>
]

\* "x in list"
InList(x, list) == \E i \in 1..Len(list) : list[i] = x

\* [c for c in list if keep(c)]
RECURSIVE SelectIn(_, _)
SelectIn(list, allowed) ==
    IF list = <<>> THEN <<>>
    ELSE IF Head(list) \in allowed
         THEN <<Head(list)>> \o SelectIn(Tail(list), allowed)
         ELSE SelectIn(Tail(list), allowed)

\* "pattern in text" for two strings
Contains(text, pattern) ==
    \E i \in 0..(Len(text) - Len(pattern)) :
        SubSeq(text, i + 1, i + Len(pattern)) = pattern

-----------------------------------------------------------------------------
(* Cell values, columns and DataFrames *)

NaN     == [t |-> "nan",  s |-> <<>>, n |-> 0]    \* NaN, None and NaT
Str(s)  == [t |-> "str",  s |-> s,    n |-> 0]
Num(n)  == [t |-> "num",  s |-> <<>>, n |-> n]
Date(s) == [t |-> "date", s |-> s,    n |-> 0]    \* a Timestamp, by its text
Bool(b) == [t |-> "bool", s |-> <<>>, n |-> IF b THEN 1 ELSE 0]

notna(v) == v.t # "nan"
isna(v)  == v.t = "nan"

\* Series.notna().sum()
CountNotNa(vals) == Cardinality({i \in 1..Len(vals) : notna(vals[i])})

\* a decimal integer literal
IsIntText(s) == s # <<>> /\ \A i \in 1..Len(s) : IsDigit(s[i])

DigitValue(c) == (CHOOSE i \in 1..10 : DigitChars[i] = c) - 1

RECURSIVE IntOfText(_)
IntOfText(s) == IF s = <<>> THEN 0
                ELSE 10 * IntOfText(SubSeq(s, 1, Len(s) - 1))
                     + DigitValue(s[Len(s)])

\* str(n) for an int n >= 0
RECURSIVE TextOfInt(_)
TextOfInt(n) == IF n < 10 THEN <<DigitChars[n + 1]>>
                ELSE TextOfInt(n \div 10) \o <<DigitChars[(n % 10) + 1]>>

\* an ISO date, YYYY-MM-DD
IsDateText(s) ==
    /\ Len(s) = 10
    /\ \A i \in {1, 2, 3, 4, 6, 7, 9, 10} : IsDigit(s[i])
    /\ s[5] = "-" /\ s[8] = "-"

EmptyFrame == [cols |-> <<>>, n |-> 0]

\* what a raised KeyError leaves in place of a returned DataFrame
KeyError == [raised |-> "KeyError"]

Raised(d) == "raised" \in DOMAIN d

\* set(df.columns)
ColumnSet(d) == {d.cols[i].name : i \in 1..Len(d.cols)}

\* "col in df.columns"
HasCol(d, c) == c \in ColumnSet(d)

\* df[col]
Col(d, c) == d.cols[CHOOSE i \in 1..Len(d.cols) : d.cols[i].name = c]

\* df[col].iloc[i]
Cell(d, c, i) == Col(d, c).vals[i]

\* the rows idx[1], idx[2], ... of d, in that order
TakeRows(d, idx) ==
    [cols |-> [k \in 1..Len(d.cols) |->
                 [d.cols[k] EXCEPT !.vals = [j \in 1..Len(idx) |-> d.cols[k].vals[idx[j]]]]],
     n    |-> Len(idx)]

\* the increasing sequence of the row numbers in 1..n that satisfy Keep
RECURSIVE RowsWhere(_, _)
RowsWhere(n, keep) ==
    IF n = 0 THEN <<>>
    ELSE IF n \in keep THEN Append(RowsWhere(n - 1, keep), n)
         ELSE RowsWhere(n - 1, keep)

\* df[names].copy()
Project(d, names) ==
    [cols |-> [k \in 1..Len(names) |-> Col(d, names[k])], n |-> d.n]

\* the values of row i in the columns of subset
KeyAt(d, subset, i) == [k \in 1..Len(subset) |-> Cell(d, subset[k], i)]

\* keep="last": the last row of each key survives
DropDuplicatesKeepLast(d, subset) ==
    IF d.n = 0 \/ d.cols = <<>> THEN d
    ELSE IF \E k \in 1..Len(subset) : ~HasCol(d, subset[k]) THEN KeyError
    ELSE TakeRows(d, RowsWhere(d.n,
            {i \in 1..d.n : \A j \in (i + 1)..d.n :
                KeyAt(d, subset, j) # KeyAt(d, subset, i)}))

\* no row dropped
KeepDuplicates(d, subset) == d

\* df.drop_duplicates(subset=subset, keep="first"): a copy if df.empty (no
\* row or no column), otherwise KeyError if a column of subset is not in df
drop_duplicates(d, subset) ==
    IF d.n = 0 \/ d.cols = <<>> THEN d
    ELSE IF \E k \in 1..Len(subset) : ~HasCol(d, subset[k]) THEN KeyError
    ELSE TakeRows(d, RowsWhere(d.n,
            {i \in 1..d.n : \A j \in 1..(i - 1) :
                KeyAt(d, subset, j) # KeyAt(d, subset, i)}))

-----------------------------------------------------------------------------
(* The helper functions *)

\* the dict parsing_issues before anything is recorded
NoIssues == [b \in {} |-> <<>>]

\* the bucket started anew with each entry
RecordReplacing(issues, bucket, entry) ==
    [b \in DOMAIN issues \cup {bucket} |->
        IF b = bucket THEN <<entry>> ELSE issues[b]]

\* if bucket not in parsing_issues: parsing_issues[bucket] = []
\* parsing_issues[bucket].append(entry)
Record(issues, bucket, entry) ==
    IF bucket \in DOMAIN issues
    THEN [issues EXCEPT ![bucket] = Append(@, entry)]
    ELSE [b \in DOMAIN issues \cup {bucket} |->
            IF b = bucket THEN <<entry>> ELSE issues[b]]

standardize_column_names(d) ==
    [d EXCEPT !.cols = [k \in 1..Len(d.cols) |->
        [d.cols[k] EXCEPT !.name = to_upper_snake_case(@)]]]

strip_string_columns(d) ==
    [d EXCEPT !.cols = [k \in 1..Len(d.cols) |->
        IF d.cols[k].dtype = "object"
        THEN [d.cols[k] EXCEPT !.vals = [i \in 1..d.n |->
                IF @[i].t = "str" THEN Str(StrStrip(@[i].s)) ELSE @[i]]]
        ELSE d.cols[k]]]

\* df.dropna(axis=1, how="all")
drop_all_null_columns(d) ==
    [d EXCEPT !.cols = SelectSeq(d.cols,
        LAMBDA c : \E i \in 1..d.n : notna(c.vals[i]))]

drop_metadata_columns(d, columns_to_drop) ==
    [d EXCEPT !.cols = SelectSeq(d.cols,
        LAMBDA c : ~InList(c.name, columns_to_drop))]

\* str(v), as Series.astype(str) applies it to a value of a column of dtype
AsTypeStr(v, dtype) ==
    CASE v.t = "str"  -> v.s
      [] v.t = "nan"  -> <<"n","a","n">>
      [] v.t = "num"  -> IF dtype = "float64"
                         THEN TextOfInt(v.n) \o <<".", "0">>
                         ELSE TextOfInt(v.n)
      [] v.t = "bool" -> IF v.n = 1 THEN <<"T","r","u","e">>
                         ELSE <<"F","a","l","s","e">>
      [] v.t = "date" -> v.s

ensure_string_dtype(d, columns) ==
    [d EXCEPT !.cols = [k \in 1..Len(d.cols) |->
        IF InList(d.cols[k].name, columns)
        THEN [d.cols[k] EXCEPT
                !.dtype = "object",
                !.vals = [i \in 1..d.n |->
                    LET s == StrStrip(AsTypeStr(d.cols[k].vals[i], d.cols[k].dtype))
                    IN  IF s = <<"n","a","n">> THEN Str(<<>>) ELSE Str(s)]]
        ELSE d.cols[k]]]

\* the deduplication keeping the last row of each key
DeduplicateKeepLast(d, key_columns) ==
    LET existing_keys == SelectIn(key_columns, ColumnSet(d))
    IN  IF existing_keys # <<>>
        THEN DropDuplicatesKeepLast(d, existing_keys)
        ELSE d

\* existing_keys = [col for col in key_columns if col in df.columns]
deduplicate_by_key(d, key_columns) ==
    LET existing_keys == SelectIn(key_columns, ColumnSet(d))
    IN  IF existing_keys # <<>>
        THEN drop_duplicates(d, existing_keys)
        ELSE d

\* pd.to_numeric(df[col], errors="coerce") on one column
to_numeric(c) ==
    CASE c.dtype = "object" ->
            LET vals == [i \in 1..Len(c.vals) |->
                    IF c.vals[i].t = "str" /\ IsIntText(c.vals[i].s)
                    THEN Num(IntOfText(c.vals[i].s))
                    ELSE IF c.vals[i].t = "num" THEN c.vals[i]
                    ELSE NaN]
            IN  [c EXCEPT !.vals = vals,
                          !.dtype = IF \E i \in 1..Len(vals) : isna(vals[i])
                                    THEN "float64" ELSE "int64"]
      [] c.dtype = "datetime64" ->
            \* the values viewed as int64, NaT included
            [c EXCEPT !.vals = [i \in 1..Len(c.vals) |-> Num(0)],
                      !.dtype = "int64"]
      [] OTHER -> c

\* "pattern.upper() in col.upper()" for some pattern of include_patterns
MatchesPattern(col, include_patterns) ==
    \E p \in 1..Len(include_patterns) :
        Contains(StrUpper(col), StrUpper(include_patterns[p]))

\* f"{col} ({original_non_null - new_non_null} values coerced to NaN)"
CoercionEntry(col, lost) == [col |-> col, lost |-> lost]

\* the loop without the ID/code test
RECURSIVE NumericLoopNoIdSkip(_, _, _, _)
NumericLoopNoIdSkip(d, include_patterns, issues, k) ==
    IF k > Len(d.cols) THEN [df |-> d, issues |-> issues]
    ELSE
      LET c == d.cols[k] IN
      IF ~MatchesPattern(c.name, include_patterns)
      THEN NumericLoopNoIdSkip(d, include_patterns, issues, k + 1)
      ELSE
        LET original_non_null == CountNotNa(c.vals)
            converted         == to_numeric(c)
            new_non_null      == CountNotNa(converted.vals)
            issues2 == IF new_non_null < original_non_null
                       THEN Record(issues, "numeric_coercion",
                              CoercionEntry(c.name, original_non_null - new_non_null))
                       ELSE issues
        IN  NumericLoopNoIdSkip([d EXCEPT !.cols[k] = converted],
                        include_patterns, issues2, k + 1)

\* the loop reporting the number of nulls after coercion instead of the
\* number of values lost
RECURSIVE NumericLoopCountsNulls(_, _, _, _)
NumericLoopCountsNulls(d, include_patterns, issues, k) ==
    IF k > Len(d.cols) THEN [df |-> d, issues |-> issues]
    ELSE
      LET c == d.cols[k] IN
      IF ~MatchesPattern(c.name, include_patterns) \/ InList(c.name, ID_CODE_COLUMNS)
      THEN NumericLoopCountsNulls(d, include_patterns, issues, k + 1)
      ELSE
        LET converted == to_numeric(c)
            nulls     == Len(c.vals) - CountNotNa(converted.vals)
            issues2 == IF nulls > 0
                       THEN Record(issues, "numeric_coercion",
                              CoercionEntry(c.name, nulls))
                       ELSE issues
        IN  NumericLoopCountsNulls([d EXCEPT !.cols[k] = converted],
                        include_patterns, issues2, k + 1)

\* the body of the loop for the column at position k: the frame and the
\* issues after it
RECURSIVE NumericLoop(_, _, _, _)
NumericLoop(d, include_patterns, issues, k) ==
    IF k > Len(d.cols) THEN [df |-> d, issues |-> issues]
    ELSE
      LET c == d.cols[k] IN
      IF ~MatchesPattern(c.name, include_patterns)
      THEN NumericLoop(d, include_patterns, issues, k + 1)
      ELSE IF InList(c.name, ID_CODE_COLUMNS)
      THEN \* continue, for every pattern that matches
           NumericLoop(d, include_patterns, issues, k + 1)
      ELSE
        LET original_non_null == CountNotNa(c.vals)
            converted         == to_numeric(c)
            new_non_null      == CountNotNa(converted.vals)
            issues2 == IF new_non_null < original_non_null
                       THEN Record(issues, "numeric_coercion",
                              CoercionEntry(c.name, original_non_null - new_non_null))
                       ELSE issues
        IN  NumericLoop([d EXCEPT !.cols[k] = converted],
                        include_patterns, issues2, k + 1)

\* returns the converted frame and the parsing_issues it leaves
convert_numeric_columns(d, include_patterns, issues) ==
    NumericLoop(d, include_patterns, issues, 1)

EndsWith(text, suffix) ==
    /\ Len(text) >= Len(suffix)
    /\ SubSeq(text, Len(text) - Len(suffix) + 1, Len(text)) = suffix

\* re.compile(r"(_DTE$|DATE|DTE)", re.IGNORECASE).search(col) is not None
date_pattern(col) ==
    \/ EndsWith(StrUpper(col), <<"_","D","T","E">>)
    \/ Contains(StrUpper(col), <<"D","A","T","E">>)
    \/ Contains(StrUpper(col), <<"D","T","E">>)

should_parse(col) == date_pattern(col) \/ InList(col, explicit_date_cols)

\* pd.to_datetime raises TypeError on a bool column whatever errors= says
ToDatetimeRaises(c) == c.dtype = "bool"

\* pd.to_datetime(df[col], format="mixed", errors="coerce") on one column
to_datetime(c) ==
    CASE c.dtype = "object" ->
            [c EXCEPT !.dtype = "datetime64",
                      !.vals = [i \in 1..Len(c.vals) |->
                          IF c.vals[i].t = "str" /\ IsDateText(c.vals[i].s)
                          THEN Date(c.vals[i].s)
                          ELSE IF c.vals[i].t = "date" THEN c.vals[i]
                          ELSE NaN]]
      [] c.dtype \in {"int64", "float64"} ->
            \* numbers are read as nanoseconds since the epoch
            [c EXCEPT !.dtype = "datetime64",
                      !.vals = [i \in 1..Len(c.vals) |->
                          IF c.vals[i].t = "num"
                          THEN Date(<<"e","p","o","c","h">>)
                          ELSE NaN]]
      [] OTHER -> c

RECURSIVE DateLoop(_, _, _)
DateLoop(d, issues, k) ==
    IF k > Len(d.cols) THEN [df |-> d, issues |-> issues]
    ELSE
      LET c == d.cols[k] IN
      IF ~should_parse(c.name) THEN DateLoop(d, issues, k + 1)
      ELSE IF ToDatetimeRaises(c)
      THEN DateLoop(d, Record(issues, "date_parsing", c.name), k + 1)
      ELSE DateLoop([d EXCEPT !.cols[k] = to_datetime(c)], issues, k + 1)

\* returns the parsed frame and the parsing_issues it leaves
parse_date_columns(d, issues) == DateLoop(d, issues, 1)

-----------------------------------------------------------------------------
(* Loading one source file *)

\* texts pd.read_csv reads as a missing value, under any dtype
NaTexts == {<<>>, <<"N","/","A">>, <<"n","a","n">>}

TrueText  == <<"T","r","u","e">>
FalseText == <<"F","a","l","s","e">>

\* one column of pd.read_csv(filepath, dtype=dtype_dict, low_memory=False):
\* a column named in dtype_dict keeps its texts, any other column gets the
\* dtype its texts allow
ReadColumn(header, texts, as_str) ==
    LET n      == Len(texts)
        present == {i \in 1..n : texts[i] \notin NaTexts}
        anyNa  == present # 1..n
    IN  IF as_str \/ n = 0
        THEN [name |-> header, dtype |-> "object",
              vals |-> [i \in 1..n |-> IF i \in present THEN Str(texts[i]) ELSE NaN]]
        ELSE IF \A i \in present : IsIntText(texts[i])
        THEN [name |-> header,
              dtype |-> IF anyNa THEN "float64" ELSE "int64",
              vals |-> [i \in 1..n |->
                  IF i \in present THEN Num(IntOfText(texts[i])) ELSE NaN]]
        ELSE IF ~anyNa /\ \A i \in present : texts[i] \in {TrueText, FalseText}
        THEN [name |-> header, dtype |-> "bool",
              vals |-> [i \in 1..n |-> Bool(texts[i] = TrueText)]]
        ELSE [name |-> header, dtype |-> "object",
              vals |-> [i \in 1..n |-> IF i \in present THEN Str(texts[i]) ELSE NaN]]

\* existing_id_cols = [col for col in id_columns if col in df_sample.columns]
load_csv_with_strings(file, id_columns) ==
    [cols |-> [k \in 1..Len(file.cols) |->
                 ReadColumn(file.cols[k].header, file.cols[k].texts,
                            InList(file.cols[k].header, id_columns))],
     n    |-> file.n]

\* steps 1 to 5 of apply_global_cleanup: what reaches the deduplication
CleanupBeforeDedup(d) ==
    LET d1 == standardize_column_names(d)
        d2 == strip_string_columns(d1)
        d3 == ensure_string_dtype(d2, ID_CODE_COLUMNS)
        d4 == drop_all_null_columns(d3)
    IN  drop_metadata_columns(d4, METADATA_COLUMNS_TO_DROP)

apply_global_cleanup(d, table_name) ==
    IF table_name \in DOMAIN NATURAL_KEYS
    THEN deduplicate_by_key(CleanupBeforeDedup(d), NATURAL_KEYS[table_name])
    ELSE CleanupBeforeDedup(d)

-----------------------------------------------------------------------------
(* The dimension and fact builders.  A builder returns the table it built  *)
(* (or KeyError), the parsing_issues it leaves and what it printed.        *)

\* one line of print(): the f-string and the number formatted into it
Msg(text, n) == [msg |-> text, n |-> n]

\* alumni_master=None
None == [none |-> TRUE]

\* the builder working on its argument itself
NoCopy(d) == [aliases |-> TRUE, frame |-> d]

\* d.copy(): a new object with the values of d, which assignments to its
\* columns do not reach
copy(d) == [aliases |-> FALSE, frame |-> d]

\* the caller's table arg after the builder has assigned columns in place
\* to the object ref, leaving it as written
SeenByCaller(arg, ref, written) == IF ref.aliases THEN written ELSE arg

\* the builder's arguments as the caller finds them after the call
Args(a, b, c) == [a |-> a, b |-> b, c |-> c]

IS_ALUMNI == <<"I","S","_","A","L","U","M","N","I">>

\* for each row of left, in order, the rows of right with the same key, in
\* order, or 0 when there is none
RECURSIVE MergePairs(_, _, _, _)
MergePairs(left, right, on, i) ==
    IF i > left.n THEN <<>>
    ELSE LET matches == RowsWhere(right.n,
                 {j \in 1..right.n : KeyAt(right, on, j) = KeyAt(left, on, i)})
         IN  (IF matches = <<>> THEN << <<i, 0>> >>
              ELSE [k \in 1..Len(matches) |-> <<i, matches[k]>>])
             \o MergePairs(left, right, on, i + 1)

\* how="inner": the rows of left without a match are left out
merge_inner(left, right, on) ==
    IF \E k \in 1..Len(on) : ~HasCol(left, on[k]) \/ ~HasCol(right, on[k])
    THEN KeyError
    ELSE
      LET pairs == SelectSeq(MergePairs(left, right, on, 1), LAMBDA q : q[2] # 0)
          extra == SelectSeq(right.cols, LAMBDA c : ~InList(c.name, on))
          lcols == [k \in 1..Len(left.cols) |->
                      [left.cols[k] EXCEPT !.vals =
                          [r \in 1..Len(pairs) |-> left.cols[k].vals[pairs[r][1]]]]]
          rcols == [k \in 1..Len(extra) |->
                      [extra[k] EXCEPT !.vals =
                          [r \in 1..Len(pairs) |-> extra[k].vals[pairs[r][2]]]]]
      IN  [cols |-> lcols \o rcols, n |-> Len(pairs)]

\* left.merge(right, on=on, how="left"); the builders' column lists share
\* no column but the join keys, so no suffix is ever applied
merge_left(left, right, on) ==
    IF \E k \in 1..Len(on) : ~HasCol(left, on[k]) \/ ~HasCol(right, on[k])
    THEN KeyError
    ELSE
      LET pairs   == MergePairs(left, right, on, 1)
          anyMiss == \E k \in 1..Len(pairs) : pairs[k][2] = 0
          extra   == SelectSeq(right.cols, LAMBDA c : ~InList(c.name, on))
          lcols   == [k \in 1..Len(left.cols) |->
                        [left.cols[k] EXCEPT !.vals =
                            [r \in 1..Len(pairs) |-> left.cols[k].vals[pairs[r][1]]]]]
          rcols   == [k \in 1..Len(extra) |->
                        [extra[k] EXCEPT
                            !.vals = [r \in 1..Len(pairs) |->
                                IF pairs[r][2] = 0 THEN NaN
                                ELSE extra[k].vals[pairs[r][2]]],
                            !.dtype = IF ~anyMiss THEN @
                                      ELSE IF @ = "int64" THEN "float64"
                                      ELSE IF @ = "bool" THEN "object"
                                      ELSE @]]
      IN  [cols |-> lcols \o rcols, n |-> Len(pairs)]

\* the filter testing only for null
FilterNotNull(d, col) ==
    TakeRows(d, RowsWhere(d.n, {i \in 1..d.n : notna(Cell(d, col, i))}))

\* df[df[col].notna() & (df[col] != "")]
FilterPresent(d, col) ==
    TakeRows(d, RowsWhere(d.n,
        {i \in 1..d.n : notna(Cell(d, col, i)) /\ Cell(d, col, i) # Str(<<>>)}))

build_dim_constituent(name_master, donor_master, alumni_master, issues) ==
    LET names       == SelectIn(name_cols, ColumnSet(name_master))
        dim0        == copy(Project(name_master, names))
        donor_cols  == SelectIn(donor_cols_to_keep, ColumnSet(donor_master))
        donor_subset == copy(Project(donor_master, donor_cols))
        conv        == convert_numeric_columns(donor_subset.frame,
                           <<<<"A","M","T">>, <<"Y","R","S">>, <<"N","U","M">>, <<"S","I","Z","E">>>>, issues)
        merged      == merge_left(dim0.frame, conv.df, <<ID_NUM>>)
        building    == Msg("Building DimConstituent...", 0)
        args        == Args(name_master,
                            SeenByCaller(donor_master, donor_subset, conv.df),
                            alumni_master)
    IN  IF Raised(merged)
        THEN [df |-> KeyError, issues |-> conv.issues, console |-> <<building>>,
              args |-> args]
        ELSE
          LET flagged ==
                IF alumni_master # None /\ HasCol(alumni_master, ID_NUM)
                THEN LET alumni_ids == {Cell(alumni_master, ID_NUM, j) :
                                           j \in 1..alumni_master.n}
                     IN  [merged EXCEPT !.cols = Append(@,
                            [name |-> IS_ALUMNI, dtype |-> "bool",
                             vals |-> [i \in 1..merged.n |->
                                 Bool(Cell(merged, ID_NUM, i) \in alumni_ids)]])]
                ELSE merged
              dim == drop_duplicates(flagged, <<ID_NUM>>)
          IN  [df |-> dim, issues |-> conv.issues,
               console |-> <<building, Msg("  Created {n} constituent records", dim.n)>>,
               args |-> args]

build_dim_alumni(alumni_master, issues) ==
    LET available_cols == SelectIn(all_desired_cols, ColumnSet(alumni_master))
        dim            == drop_duplicates(copy(Project(alumni_master, available_cols)).frame,
                                          <<ID_NUM>>)
        building       == Msg("Building DimAlumni...", 0)
        args           == Args(alumni_master, None, None)
    IN  IF Raised(dim)
        THEN [df |-> KeyError, issues |-> issues, console |-> <<building>>,
              args |-> args]
        ELSE [df |-> dim, issues |-> issues,
              console |-> <<building, Msg("  Created {n} alumni records", dim.n)>>,
              args |-> args]

build_dim_campaign(campaign, issues) ==
    LET available_cols == SelectIn(campaign_cols_to_keep, ColumnSet(campaign))
        dim0           == copy(Project(campaign, available_cols))
        conv           == convert_numeric_columns(dim0.frame,
                              <<<<"A","M","T">>, <<"G","O","A","L">>, <<"A","C","T","U","A","L">>, <<"B","U","D","G","E","T">>, <<"P","I","E","C","E","S">>>>, issues)
        dim            == drop_duplicates(conv.df, <<CAMPAIGN_CDE>>)
        building       == Msg("Building DimCampaign...", 0)
        args           == Args(SeenByCaller(campaign, dim0, conv.df), None, None)
    IN  IF Raised(dim)
        THEN [df |-> KeyError, issues |-> conv.issues, console |-> <<building>>,
              args |-> args]
        ELSE [df |-> dim, issues |-> conv.issues,
              console |-> <<building, Msg("  Created {n} campaign records", dim.n)>>,
              args |-> args]

build_dim_gift_category(gift_category, issues) ==
    LET available_cols == SelectIn(gift_category_cols_to_keep, ColumnSet(gift_category))
        dim0           == copy(Project(gift_category, available_cols)).frame
        key_cols       == <<APPID, CAT_COMP_1, CAT_COMP_2>>
        existing_keys  == SelectIn(key_cols, ColumnSet(dim0))
        dim            == IF existing_keys # <<>>
                          THEN drop_duplicates(dim0, existing_keys)
                          ELSE dim0
    IN  [df |-> dim, issues |-> issues,
         console |-> <<Msg("Building DimGiftCategory...", 0),
                       Msg("  Created {n} gift category records", dim.n)>>,
         args |-> Args(gift_category, None, None)]

build_dim_solicitation(solicit_def, issues) ==
    LET available_cols == SelectIn(solicit_cols_to_keep, ColumnSet(solicit_def))
        dim            == drop_duplicates(copy(Project(solicit_def, available_cols)).frame,
                                          <<SOLICIT_CDE>>)
        building       == Msg("Building DimSolicitation...", 0)
        args           == Args(solicit_def, None, None)
    IN  IF Raised(dim)
        THEN [df |-> KeyError, issues |-> issues, console |-> <<building>>,
              args |-> args]
        ELSE [df |-> dim, issues |-> issues,
              console |-> <<building, Msg("  Created {n} solicitation records", dim.n)>>,
              args |-> args]

\* build_fact_gift_transaction up to the merge: the projected transaction
\* table before the join, the table after it and the parsing_issues
JoinGiftMaster(gift_tran, gift_master, issues) ==
    LET available_tran_cols   == SelectIn(tran_cols, ColumnSet(gift_tran))
        fact0                 == copy(Project(gift_tran, available_tran_cols))
        conv1                 == convert_numeric_columns(fact0.frame,
                                     <<<<"A","M","T">>>>, issues)
        available_master_cols == SelectIn(master_cols, ColumnSet(gift_master))
        master0               == copy(Project(gift_master, available_master_cols))
        conv2                 == convert_numeric_columns(master0.frame,
                                     <<<<"A","M","T">>>>, conv1.issues)
        master_subset         == conv2.df
    IN  [before |-> conv1.df,
         issues |-> conv2.issues,
         args   |-> Args(SeenByCaller(gift_tran, fact0, conv1.df),
                         SeenByCaller(gift_master, master0, conv2.df), None),
         df     |-> IF \A k \in 1..Len(join_keys) : HasCol(master_subset, join_keys[k])
                    THEN LET master_for_join == drop_duplicates(master_subset, join_keys)
                         IN  merge_left(conv1.df, master_for_join, join_keys)
                    ELSE conv1.df]

\* build_fact_gift_transaction after the merge: the rows whose DONOR_ID or
\* GIFT_NUM is missing are filtered out and the table is returned
RemoveMissingKeys(join) ==
    LET joined   == join.df
        building == Msg("Building FactGiftTransaction...", 0)
    IN  IF Raised(joined)
        THEN [df |-> KeyError, issues |-> join.issues, console |-> <<building>>,
              args |-> join.args]
        ELSE
          LET fact1    == IF HasCol(joined, DONOR_ID)
                          THEN FilterPresent(joined, DONOR_ID) ELSE joined
              removed1 == joined.n - fact1.n
              out1     == IF HasCol(joined, DONOR_ID) /\ removed1 > 0
                          THEN <<Msg("  Removed {n} rows with missing DONOR_ID", removed1)>>
                          ELSE <<>>
              fact2    == IF HasCol(fact1, GIFT_NUM)
                          THEN FilterPresent(fact1, GIFT_NUM) ELSE fact1
              removed2 == fact1.n - fact2.n
              out2     == IF HasCol(fact1, GIFT_NUM) /\ removed2 > 0
                          THEN <<Msg("  Removed {n} rows with missing GIFT_NUM", removed2)>>
                          ELSE <<>>
          IN  [df |-> fact2, issues |-> join.issues,
               console |-> <<building>> \o out1 \o out2
                   \o <<Msg("  Created {n} gift transaction records", fact2.n)>>,
               args |-> join.args]

build_fact_gift_transaction(gift_tran, gift_master, issues) ==
    RemoveMissingKeys(JoinGiftMaster(gift_tran, gift_master, issues))

build_fact_donor_year_summary(donor_year_sum, issues) ==
    LET fact == copy(donor_year_sum)
        conv == convert_numeric_columns(fact.frame,
                    <<<<"A","M","T">>, <<"_","N","U","M">>>>, issues)
    IN  [df |-> conv.df, issues |-> conv.issues,
         console |-> <<Msg("Building FactDonorYearSummary...", 0),
                       Msg("  Created {n} donor year summary records", conv.df.n)>>,
         args |-> Args(SeenByCaller(donor_year_sum, fact, conv.df), None, None)]

build_fact_donor_campaign_summary(donor_camp_sum, issues) ==
    LET fact == copy(donor_camp_sum)
        conv == convert_numeric_columns(fact.frame,
                    <<<<"A","M","T">>, <<"_","N","U","M">>>>, issues)
    IN  [df |-> conv.df, issues |-> conv.issues,
         console |-> <<Msg("Building FactDonorCampaignSummary...", 0),
                       Msg("  Created {n} donor campaign summary records", conv.df.n)>>,
         args |-> Args(SeenByCaller(donor_camp_sum, fact, conv.df), None, None)]

-----------------------------------------------------------------------------
(* Specification SpecName: to_upper_snake_case applied to a raw column     *)
(* name, and then to its own result                                        *)

MaxNameLen == 4

\* the characters raw names are drawn from: a space, a tab, a lower-case
\* and an upper-case letter, an underscore
NameChars == {" ", "\t", "a", "B", "_"}

\* the names of the docstring and of the specification's examples
ExampleNames == {
    <<"I","d"," ","N","u","m">>,
    <<"g","i","f","t","_","a","m","t">>,
    <<"F","i","r","s","t","N","a","m","e">>,
    <<"g","i","f","t","A","m","t">>,
    <<" "," ","D","o","n","o","r"," "," ","I","D"," ">>
}

SeqsUpTo(S, n) == UNION {[1..k -> S] : k \in 0..n}

NameInputs == SeqsUpTo(NameChars, MaxNameLen) \cup ExampleNames

\* the variables the specification at hand does not use
IdleName   == name = <<>> /\ canon = <<>> /\ canon2 = <<>>
IdleTables == csv = EmptyFrame /\ src = EmptyFrame /\ df = EmptyFrame
IdleLog    == parsing_issues = NoIssues /\ console = <<>>

\* dataframes = {} and output_tables = {}
NoTables == [t \in {} |-> EmptyFrame]

IdleMain ==
    /\ files = [base_exists |-> FALSE, present |-> {}]
    /\ dataframes = NoTables /\ output_tables = NoTables
    /\ exported = {} /\ step = 0

InitName ==
    /\ pc = "name_raw"
    /\ name \in NameInputs
    /\ canon = <<>> /\ canon2 = <<>>
    /\ IdleTables /\ IdleLog
    /\ IdleMain

\* canon = to_upper_snake_case(name)
Normalize ==
    /\ pc = "name_raw"
    /\ canon' = to_upper_snake_case(name)
    /\ pc' = "name_once"
    /\ UNCHANGED <<mainVars, name, canon2, csv, src, df, parsing_issues, console>>

\* canon2 = to_upper_snake_case(canon)
NormalizeAgain ==
    /\ pc = "name_once"
    /\ canon2' = to_upper_snake_case(canon)
    /\ pc' = "name_twice"
    /\ UNCHANGED <<mainVars, name, canon, csv, src, df, parsing_issues, console>>

NextName == Normalize \/ NormalizeAgain

SpecName == InitName /\ [][NextName]_vars

\* an upper-snake-case token: upper-case letters, digits and single
\* underscores
IsCanonicalName(s) ==
    /\ \A i \in 1..Len(s) : IsUpper(s[i]) \/ IsDigit(s[i]) \/ s[i] = "_"
    /\ \A i \in 1..(Len(s) - 1) : ~(s[i] = "_" /\ s[i + 1] = "_")

\* C8: to_upper_snake_case is idempotent; a name that is already canonical
\* is returned unchanged; an empty or whitespace-only name gives the empty
\* string.
C8_Idempotent ==
    /\ pc = "name_twice" => canon2 = canon
    /\ (pc # "name_raw" /\ IsCanonicalName(name)) => canon = name
    /\ (pc # "name_raw" /\ \A i \in 1..Len(name) : IsSpace(name[i])) => canon = <<>>

\* a name with an inner space and an underscore, normalised twice
C8_Witness ==
    /\ pc = "name_twice"
    /\ name = <<"a", " ", "_", "B">>
    /\ canon = <<"A", "_", "B">>

\* each maximal run of whitespace characters replaced by one underscore
RECURSIVE WhitespaceRunsToUnderscore(_)
WhitespaceRunsToUnderscore(s) ==
    IF s = <<>> THEN <<>>
    ELSE IF IsSpace(s[1])
         THEN IF Len(s) >= 2 /\ IsSpace(s[2])
              THEN WhitespaceRunsToUnderscore(Tail(s))
              ELSE <<"_">> \o WhitespaceRunsToUnderscore(Tail(s))
         ELSE <<s[1]>> \o WhitespaceRunsToUnderscore(Tail(s))

\* the algorithm as C9 words it
SnakeAsDescribed(s) ==
    StrUpper(CollapseUnderscores(CamelSplit(WhitespaceRunsToUnderscore(StrStrip(s)))))

\* C9: to_upper_snake_case trims, turns each internal whitespace run into
\* one underscore, splits at lower-to-upper boundaries, collapses repeated
\* underscores and upper-cases.
C9_AsDescribed == pc # "name_raw" => canon = SnakeAsDescribed(name)

-----------------------------------------------------------------------------
(* Specification SpecLoad: one source file through load_all_source_files   *)
(* (load_csv_with_strings, apply_global_cleanup, parse_date_columns) and   *)
(* then through the builder main() feeds it to                             *)

MaxRows == 3

\* the source files tried: a table name, the header line and the lines the
\* file's rows are drawn from
FileLayouts == <<
    [table |-> "solicit_def",
     headers |-> <<<<"S","O","L","I","C","I","T","_","C","D","E">>, <<"D","E","S","C","R","I","P","T","I","O","N">>>>,
     pool |-> {<<<<"A">>, <<"f","i","r","s","t">>>>,
                   <<<<"A">>, <<"s","e","c","o","n","d">>>>,
                   <<<<"A"," ">>, <<"t","h","i","r","d">>>>,
                   <<<<"B">>, <<"f","i","r","s","t">>>>,
                   <<<<>>, <<"f","i","r","s","t">>>>,
                   <<<<"0","0","0","1","2","3">>, <<"s","e","c","o","n","d">>>>,
                   <<<<" ","n","a","n">>, <<"t","h","i","r","d">>>>,
                   <<<<"A">>, <<>>>>}],
    [table |-> "solicit_def",
     headers |-> <<<<"S","o","l","i","c","i","t"," ","C","d","e">>, <<"D","e","s","c","r","i","p","t","i","o","n">>>>,
     pool |-> {<<<<"0","0","0","1","2","3">>, <<"f","i","r","s","t">>>>,
                   <<<<"1","2","3">>, <<"s","e","c","o","n","d">>>>,
                   <<<<"A">>, <<"f","i","r","s","t">>>>,
                   <<<<>>, <<"t","h","i","r","d">>>>}],
    [table |-> "alumni_master",
     headers |-> <<<<"I","d"," ","N","u","m">>, <<"L","A","S","T","_","V","I","S","I","T","_","D","T","E">>, <<"V","a","l","i","d","a","t","e","d">>>>,
     pool |-> {<<<<"0","0","0","1","2","3">>, <<"2","0","2","0","-","0","1","-","0","2">>, <<"T","r","u","e">>>>,
                   <<<<"0","0","0","1","2","3">>, <<"x","y","z">>, <<"F","a","l","s","e">>>>,
                   <<<<"7">>, <<>>, <<"T","r","u","e">>>>,
                   <<<<>>, <<"x","y","z">>, <<"x">>>>,
                   <<<<"7">>, <<"2","0","2","0","-","0","1","-","0","2">>, <<>>>>}],
    [table |-> "donor_year_sum",
     headers |-> <<<<"I","D","_","N","U","M">>, <<"Y","R","_","C","D","E">>, <<"Y","E","A","R","_","T","Y","P","E">>, <<"G","I","F","T","S","_","N","U","M">>, <<"U","S","E","R","_","N","A","M","E">>>>,
     pool |-> {<<<<"0","0","0","1","2","3">>, <<"2","0","2","0">>, <<"F">>, <<"3">>, <<"b","o","b">>>>,
                   <<<<"0","0","0","1","2","3">>, <<"2","0","2","0">>, <<"F">>, <<"x">>, <<"a","m","y">>>>,
                   <<<<"0","0","0","1","2","3">>, <<"2","0","2","1">>, <<"F">>, <<>>, <<"b","o","b">>>>,
                   <<<<"0","0","0","1","2","3">>, <<>>, <<>>, <<"5">>, <<>>>>,
                   <<<<"7">>, <<>>, <<>>, <<"x">>, <<>>>>}],
    [table |-> "gift_category",
     headers |-> <<<<"A","P","P","I","D">>, <<"C","A","T","_","C","O","M","P","_","1">>, <<"C","A","T","_","C","O","M","P","_","2">>, <<"G","I","F","T","_","C","A","T","_","D","E","S","C">>>>,
     pool |-> {<<<<"1">>, <<"A">>, <<"B">>, <<"f","i","r","s","t">>>>,
                   <<<<"1">>, <<"A">>, <<"B">>, <<"s","e","c","o","n","d">>>>,
                   <<<<"1"," ">>, <<"A">>, <<"B">>, <<"t","h","i","r","d">>>>,
                   <<<<"1">>, <<"A">>, <<>>, <<"t","h","i","r","d">>>>,
                   <<<<"2">>, <<"A">>, <<"B">>, <<>>>>}],
    [table |-> "campaign",
     headers |-> <<<<"C","A","M","P","A","I","G","N","_","C","D","E">>, <<"C","A","M","P","A","I","G","N","_","D","E","S","C">>, <<"C","A","M","P","A","N","_","A","M","T","_","G","O","A","L">>, <<"C","A","M","P","_","S","T","A","R","T","_","D","A","T","E">>>>,
     pool |-> {<<<<"C","1">>, <<"f","i","r","s","t">>, <<"1","0","0">>, <<"2","0","2","0","-","0","1","-","0","2">>>>,
                   <<<<"C","1">>, <<"s","e","c","o","n","d">>, <<"x">>, <<"x","y","z">>>>,
                   <<<<"C","1">>, <<"t","h","i","r","d">>, <<>>, <<>>>>,
                   <<<<"C","2">>, <<"f","i","r","s","t">>, <<"x">>, <<"x","y","z">>>>}]
>>

\* the file with header line headers and the lines rows
FileOf(table, headers, rows) ==
    [table |-> table,
     n     |-> Len(rows),
     cols  |-> [k \in 1..Len(headers) |->
                  [header |-> headers[k],
                   texts  |-> [i \in 1..Len(rows) |-> rows[i][k]]]]]

SourceFiles ==
    UNION {{FileOf(FileLayouts[l].table, FileLayouts[l].headers, rows) :
                rows \in SeqsUpTo(FileLayouts[l].pool, MaxRows)} :
           l \in 1..Len(FileLayouts)}

InitLoad ==
    /\ pc = "file"
    /\ csv \in SourceFiles
    /\ src = EmptyFrame /\ df = EmptyFrame
    /\ IdleName /\ IdleLog
    /\ IdleMain

\* df = load_csv_with_strings(filepath, ID_CODE_COLUMNS)
Load ==
    /\ pc = "file"
    /\ df' = load_csv_with_strings(csv, ID_CODE_COLUMNS)
    /\ src' = EmptyFrame
    /\ pc' = "loaded"
    /\ UNCHANGED <<mainVars, name, canon, canon2, csv, parsing_issues, console>>

\* df = apply_global_cleanup(df, table_name)
Cleanup ==
    /\ pc = "loaded"
    /\ src' = df
    /\ df' = apply_global_cleanup(df, csv.table)
    /\ pc' = "cleaned"
    /\ UNCHANGED <<mainVars, name, canon, canon2, csv, parsing_issues, console>>

\* df = parse_date_columns(df); dataframes[table_name] = df
ParseDates ==
    /\ pc = "cleaned"
    /\ src' = df
    /\ LET r == parse_date_columns(df, parsing_issues)
       IN  df' = r.df /\ parsing_issues' = r.issues
    /\ pc' = "parsed"
    /\ UNCHANGED <<mainVars, name, canon, canon2, csv, console>>

\* the builder main() hands a loaded table to, for the tables that are the
\* only source of their output table
BuilderFor(table, d, issues) ==
    CASE table = "alumni_master"  -> build_dim_alumni(d, issues)
      [] table = "campaign"       -> build_dim_campaign(d, issues)
      [] table = "gift_category"  -> build_dim_gift_category(d, issues)
      [] table = "solicit_def"    -> build_dim_solicitation(d, issues)
      [] table = "donor_year_sum" -> build_fact_donor_year_summary(d, issues)
      [] table = "donor_camp_sum" -> build_fact_donor_campaign_summary(d, issues)

Build ==
    /\ pc = "parsed"
    /\ src' = df
    /\ LET r == BuilderFor(csv.table, df, parsing_issues)
       IN  /\ df' = r.df
           /\ parsing_issues' = r.issues
           /\ console' = console \o r.console
    /\ pc' = "built"
    /\ UNCHANGED <<mainVars, name, canon, canon2, csv>>

NextLoad == Load \/ Cleanup \/ ParseDates \/ Build

SpecLoad == InitLoad /\ [][NextLoad]_vars

DESCRIPTION == solicit_cols_to_keep[2]

\* the natural key of the file's table is declared and all its columns are
\* in d
KeyPresent(d) ==
    /\ csv.table \in DOMAIN NATURAL_KEYS
    /\ \A k \in 1..Len(NATURAL_KEYS[csv.table]) : HasCol(d, NATURAL_KEYS[csv.table][k])

\* C1: after apply_global_cleanup(df, t), for a table t with a declared
\* natural key whose columns are all present, no two rows share a key and
\* the rows kept are exactly the first row of each key, in the original
\* order.
C1_DedupKeepsFirst ==
    (pc = "cleaned" /\ KeyPresent(df)) =>
        LET key    == NATURAL_KEYS[csv.table]
            pre    == CleanupBeforeDedup(src)
            firsts == {i \in 1..pre.n : \A j \in 1..(i - 1) :
                          KeyAt(pre, key, j) # KeyAt(pre, key, i)}
        IN  /\ \A i, j \in 1..df.n : i < j => KeyAt(df, key, i) # KeyAt(df, key, j)
            /\ df = TakeRows(pre, RowsWhere(pre.n, firsts))

\* three rows of one solicitation code, one of them with a trailing space,
\* cleaned to the first of them
C1_Witness ==
    /\ pc = "cleaned"
    /\ csv.table = "solicit_def"
    /\ KeyPresent(df)
    /\ src.n = 3 /\ df.n = 1
    /\ csv.cols[1].texts = << <<"A">>, <<"A">>, <<"A", " ">> >>
    /\ csv.cols[2].texts = <<<<"f","i","r","s","t">>, <<"s","e","c","o","n","d">>, <<"t","h","i","r","d">>>>
    /\ Cell(df, SOLICIT_CDE, 1) = Str(<<"A">>)
    /\ Cell(df, DESCRIPTION, 1) = Str(<<"f","i","r","s","t">>)

\* C2: a column whose header canonicalises to a name of ID_CODE_COLUMNS
\* holds, in the loaded table and in the builder's output, only strings,
\* each the text of one of the file's cells of that column (stripped; the
\* empty string for a missing cell).
C2_IdentifiersKeepText ==
    (pc \in {"parsed", "built"} /\ ~Raised(df)) =>
        \A k \in 1..Len(csv.cols) :
            LET col == to_upper_snake_case(csv.cols[k].header) IN
            (InList(col, ID_CODE_COLUMNS) /\ HasCol(df, col)) =>
                \A i \in 1..df.n :
                    /\ Cell(df, col, i).t = "str"
                    /\ \E j \in 1..csv.n :
                          IF csv.cols[k].texts[j] \in NaTexts
                          THEN Cell(df, col, i).s = <<>>
                          ELSE Cell(df, col, i).s = StrStrip(csv.cols[k].texts[j])

\* C7: the table the loader returns and the table a builder returns have
\* no column that is null in every row, and no column of the file whose
\* every cell is missing.
C7_NoAllNullColumn ==
    (pc \in {"parsed", "built"} /\ ~Raised(df)) =>
        /\ \A c \in 1..Len(df.cols) : \E i \in 1..df.n : notna(df.cols[c].vals[i])
        /\ \A k \in 1..Len(csv.cols) :
              (\A j \in 1..csv.n : csv.cols[k].texts[j] \in NaTexts)
                  => ~HasCol(df, to_upper_snake_case(csv.cols[k].header))

\* C10: in parse_date_columns a value of a temporal column that cannot be
\* parsed becomes null, and each such failure leaves an entry for its
\* column in the "date_parsing" bucket.
C10_DateFailuresLogged ==
    pc = "parsed" =>
        \A c \in 1..Len(src.cols) :
            should_parse(src.cols[c].name) =>
                \A i \in 1..src.n :
                    (notna(src.cols[c].vals[i]) /\ isna(df.cols[c].vals[i])) =>
                        /\ "date_parsing" \in DOMAIN parsing_issues
                        /\ InList(src.cols[c].name, parsing_issues["date_parsing"])

-----------------------------------------------------------------------------
(* Specification SpecNumeric: one call of convert_numeric_columns on a     *)
(* loaded table, with one of the pattern lists the builders pass           *)

\* a table as the loader types it: the identifier columns as strings, any
\* other column with the dtype its texts allow
TypedFrame(headers, rows) ==
    ensure_string_dtype(
        load_csv_with_strings(FileOf("", headers, rows), ID_CODE_COLUMNS),
        ID_CODE_COLUMNS)

NumericLayouts == <<
    [headers |-> <<<<"I","D","_","N","U","M">>, <<"G","I","F","T","_","A","M","T">>>>,
     pool |-> {<<<<"1","2">>, <<"1","0","0">>>>,
              <<<<"x">>, <<"x">>>>,
              <<<<>>, <<"N","/","A">>>>,
              <<<<"1","2">>, <<>>>>,
              <<<<"0","0","7">>, <<"5"," ","0">>>>}],
    [headers |-> <<<<"G","I","F","T","_","N","U","M">>, <<"N","U","M","_","G","I","V","I","N","G","_","Y","R","S">>>>,
     pool |-> {<<<<"1","2">>, <<"3">>>>,
              <<<<"x","9">>, <<"x">>>>,
              <<<<>>, <<>>>>}],
    [headers |-> <<<<"D","E","S","C","R","I","P","T","I","O","N">>, <<"G","I","F","T","S","_","N","U","M">>, <<"D","O","N","O","R","_","I","D">>>>,
     pool |-> {<<<<"1","2">>, <<"3">>, <<"1">>>>,
              <<<<"x">>, <<"x">>, <<"x">>>>,
              <<<<>>, <<"x">>, <<>>>>}]
>>

NumericFrames ==
    UNION {{TypedFrame(NumericLayouts[l].headers, rows) :
                rows \in SeqsUpTo(NumericLayouts[l].pool, MaxRows)} :
           l \in 1..Len(NumericLayouts)}

\* the include_patterns arguments of the builders
PatternLists == {
    <<<<"A","M","T">>, <<"Y","R","S">>, <<"N","U","M">>, <<"S","I","Z","E">>>>,
    <<<<"A","M","T">>, <<"G","O","A","L">>, <<"A","C","T","U","A","L">>, <<"B","U","D","G","E","T">>, <<"P","I","E","C","E","S">>>>,
    <<<<"A","M","T">>>>,
    <<<<"A","M","T">>, <<"_","N","U","M">>>>
}

\* what parsing_issues may hold when the call starts
PriorIssues == {
    NoIssues,
    Record(NoIssues, "numeric_coercion", CoercionEntry(<<"G","I","F","T","_","A","M","T">>, 1))
}

InitNumeric ==
    /\ pc = "numeric_args"
    /\ \E d \in NumericFrames, ps \in PatternLists, prior \in PriorIssues :
          /\ src = [df |-> d, include_patterns |-> ps, issues |-> prior]
          /\ parsing_issues = prior
    /\ df = EmptyFrame /\ csv = EmptyFrame /\ console = <<>>
    /\ IdleName
    /\ IdleMain

\* df = convert_numeric_columns(df, include_patterns)
ConvertNumeric ==
    /\ pc = "numeric_args"
    /\ LET r == convert_numeric_columns(src.df, src.include_patterns, parsing_issues)
       IN  df' = r.df /\ parsing_issues' = r.issues
    /\ pc' = "converted"
    /\ UNCHANGED <<mainVars, name, canon, canon2, csv, src, console>>

NextNumeric == ConvertNumeric

SpecNumeric == InitNumeric /\ [][NextNumeric]_vars

\* the entries of a bucket of now that were not in before
NewEntries(before, now, bucket) ==
    IF bucket \notin DOMAIN now THEN <<>>
    ELSE IF bucket \notin DOMAIN before THEN now[bucket]
    ELSE SubSeq(now[bucket], Len(before[bucket]) + 1, Len(now[bucket]))

\* the entries the call has appended for the column col
CoercionEntriesFor(col) ==
    SelectSeq(NewEntries(src.issues, parsing_issues, "numeric_coercion"),
              LAMBDA e : e.col = col)

\* C3: convert_numeric_columns leaves every column of ID_CODE_COLUMNS as it
\* was and logs no issue for it, whatever patterns its name contains.
C3_IdentifierWins ==
    pc = "converted" =>
        \A k \in 1..Len(src.df.cols) :
            InList(src.df.cols[k].name, ID_CODE_COLUMNS) =>
                /\ df.cols[k] = src.df.cols[k]
                /\ CoercionEntriesFor(src.df.cols[k].name) = <<>>
                /\ \A i \in 1..df.n : df.cols[k].vals[i].t = "str"

\* ID_NUM holds a text that is no number and matches the pattern "_NUM",
\* while the call has coerced another column
C3_Witness ==
    /\ pc = "converted"
    /\ HasCol(src.df, ID_NUM)
    /\ MatchesPattern(ID_NUM, src.include_patterns)
    /\ \E i \in 1..df.n : Cell(df, ID_NUM, i) = Str(<<"x">>)
    /\ NewEntries(src.issues, parsing_issues, "numeric_coercion") # <<>>

\* a value pd.to_numeric keeps
Parses(v) == v.t = "num" \/ (v.t = "str" /\ IsIntText(v.s))

\* C4: for a non-identifier column whose name contains a pattern, values
\* that do not parse become null, values that parse are kept as numbers,
\* and the call appends one "numeric_coercion" entry for the column, with
\* the number of non-null values that did not parse, or none when that
\* number is zero.
C4_CoercionCounted ==
    pc = "converted" =>
        \A k \in 1..Len(src.df.cols) :
            LET col    == src.df.cols[k].name
                before == src.df.cols[k].vals
                after  == df.cols[k].vals
                lost   == {i \in 1..src.df.n : notna(before[i]) /\ ~Parses(before[i])}
            IN  (~InList(col, ID_CODE_COLUMNS) /\ MatchesPattern(col, src.include_patterns)) =>
                    /\ \A i \in 1..src.df.n :
                          IF Parses(before[i])
                          THEN after[i] = IF before[i].t = "num" THEN before[i]
                                          ELSE Num(IntOfText(before[i].s))
                          ELSE isna(after[i])
                    /\ CountNotNa(before) - CountNotNa(after) = Cardinality(lost)
                    /\ CoercionEntriesFor(col) =
                          IF Cardinality(lost) > 0
                          THEN <<CoercionEntry(col, Cardinality(lost))>>
                          ELSE <<>>

\* an amount column with a null and two texts that are no numbers: one
\* entry, counting two
C4_Witness ==
    /\ pc = "converted"
    /\ HasCol(src.df, <<"G","I","F","T","_","A","M","T">>)
    /\ \E i \in 1..src.df.n : isna(Cell(src.df, <<"G","I","F","T","_","A","M","T">>, i))
    /\ CoercionEntriesFor(<<"G","I","F","T","_","A","M","T">>) = <<CoercionEntry(<<"G","I","F","T","_","A","M","T">>, 2)>>

-----------------------------------------------------------------------------
(* Specification SpecBuild: one builder called on tables typed as the      *)
(* loader types them, duplicate keys and missing columns included          *)

\* inputs of build_dim_campaign
CampaignLayouts == <<
    [headers |-> <<<<"C","A","M","P","A","I","G","N","_","C","D","E">>, <<"C","A","M","P","A","I","G","N","_","D","E","S","C">>, <<"C","A","M","P","A","N","_","A","M","T","_","G","O","A","L">>>>,
     pool |-> {<<<<"C","1">>, <<"f","i","r","s","t">>, <<"1","0","0">>>>,
              <<<<"C","1">>, <<"s","e","c","o","n","d">>, <<"x">>>>,
              <<<<"C","1">>, <<"t","h","i","r","d">>, <<>>>>,
              <<<<"C","2">>, <<"f","i","r","s","t">>, <<"5">>>>}],
    [headers |-> <<<<"C","A","M","P","A","I","G","N","_","D","E","S","C">>, <<"C","A","M","P","_","C","O","N","T","A","C","T","_","I","D","_","N","U","M">>>>,
     pool |-> {<<<<"f","i","r","s","t">>, <<"7">>>>,
              <<<<"s","e","c","o","n","d">>, <<"x">>>>}]
>>

\* inputs of build_dim_solicitation
SolicitLayouts == <<
    [headers |-> <<<<"S","O","L","I","C","I","T","_","C","D","E">>, <<"D","E","S","C","R","I","P","T","I","O","N">>, <<"S","O","L","I","C","I","T","_","T","Y","P","E">>>>,
     pool |-> {<<<<"A">>, <<"f","i","r","s","t">>, <<"t">>>>,
              <<<<"A">>, <<"s","e","c","o","n","d">>, <<"t">>>>,
              <<<<"B">>, <<"f","i","r","s","t">>, <<"u">>>>,
              <<<<>>, <<"t","h","i","r","d">>, <<>>>>}],
    [headers |-> <<<<"D","E","S","C","R","I","P","T","I","O","N">>>>,
     pool |-> {<<<<"f","i","r","s","t">>>>,
              <<<<"s","e","c","o","n","d">>>>}]
>>

\* inputs of build_dim_alumni
AlumniLayouts == <<
    [headers |-> <<<<"I","D","_","N","U","M">>, <<"R","E","U","N","I","O","N","_","Y","R","_","1">>, <<"E","M","A","I","L","_","1">>, <<"C","L","A","S","S","_","Y","R">>>>,
     pool |-> {<<<<"1">>, <<"1","9","9","0">>, <<"a","@","x">>, <<"1","9","9","0">>>>,
              <<<<"1">>, <<"1","9","9","1">>, <<"b","@","x">>, <<"1","9","9","1">>>>,
              <<<<"2">>, <<>>, <<>>, <<"1","9","9","0">>>>,
              <<<<>>, <<"1","9","9","0">>, <<"c","@","x">>, <<>>>>}],
    [headers |-> <<<<"E","M","A","I","L","_","1">>, <<"E","D","U","C","A","T","I","O","N","_","I","N","T","_","0","1">>>>,
     pool |-> {<<<<"a","@","x">>, <<"Y">>>>,
              <<<<"b","@","x">>, <<>>>>}]
>>

\* inputs of build_dim_gift_category
GiftCategoryLayouts == <<
    [headers |-> <<<<"A","P","P","I","D">>, <<"C","A","T","_","C","O","M","P","_","1">>, <<"C","A","T","_","C","O","M","P","_","2">>, <<"G","I","F","T","_","C","A","T","_","D","E","S","C">>>>,
     pool |-> {<<<<"1">>, <<"A">>, <<"B">>, <<"f","i","r","s","t">>>>,
              <<<<"1">>, <<"A">>, <<"B">>, <<"s","e","c","o","n","d">>>>,
              <<<<"1">>, <<"A">>, <<"C">>, <<"t","h","i","r","d">>>>,
              <<<<"2">>, <<"A">>, <<"B">>, <<>>>>}],
    [headers |-> <<<<"A","P","P","I","D">>, <<"C","A","T","_","C","O","M","P","_","1">>, <<"G","I","F","T","_","C","A","T","_","D","E","S","C">>>>,
     pool |-> {<<<<"1">>, <<"A">>, <<"f","i","r","s","t">>>>,
              <<<<"1">>, <<"A">>, <<"s","e","c","o","n","d">>>>,
              <<<<"1">>, <<"B">>, <<"t","h","i","r","d">>>>}],
    [headers |-> <<<<"G","I","F","T","_","C","A","T","_","D","E","S","C">>>>,
     pool |-> {<<<<"f","i","r","s","t">>>>,
              <<<<"f","i","r","s","t">>>>}]
>>

\* inputs of build_fact_donor_year_summary and build_fact_donor_campaign_summary
SummaryLayouts == <<
    [headers |-> <<<<"I","D","_","N","U","M">>, <<"Y","R","_","C","D","E">>, <<"Y","E","A","R","_","T","Y","P","E">>, <<"G","I","F","T","S","_","N","U","M">>, <<"G","I","F","T","S","_","A","M","T">>>>,
     pool |-> {<<<<"1">>, <<"2","0","2","0">>, <<"F">>, <<"3">>, <<"1","0","0">>>>,
              <<<<"1">>, <<"2","0","2","1">>, <<"F">>, <<"x">>, <<"x">>>>,
              <<<<"2">>, <<"2","0","2","0">>, <<"C">>, <<>>, <<"5">>>>}]
>>

\* the name_master inputs of build_dim_constituent
NameLayouts == <<
    [headers |-> <<<<"I","D","_","N","U","M">>, <<"L","A","S","T","_","N","A","M","E">>, <<"B","I","R","T","H","_","N","A","M","E">>>>,
     pool |-> {<<<<"1">>, <<"A","n","n">>, <<"a">>>>,
              <<<<"1">>, <<"B","o","b">>, <<"b">>>>,
              <<<<"2">>, <<"C","y">>, <<"c">>>>}],
    [headers |-> <<<<"L","A","S","T","_","N","A","M","E">>>>,
     pool |-> {<<<<"A","n","n">>>>,
              <<<<"B","o","b">>>>}]
>>

\* the donor_master inputs of build_dim_constituent
DonorTables == {
    TypedFrame(<<<<"I","D","_","N","U","M">>, <<"P","R","E","F","_","F","S","T","_","N","M">>, <<"F","I","R","S","T","_","G","I","F","T","_","A","M","T">>>>,
        <<<<<<"1">>, <<"A","l">>, <<"1","0">>>>, <<<<"1">>, <<"B","o">>, <<"x">>>>, <<<<"3">>, <<"C","y">>, <<"5">>>>>>),
    TypedFrame(<<<<"I","D","_","N","U","M">>, <<"N","U","M","_","G","I","V","I","N","G","_","Y","R","S">>>>,
        <<<<<<"2">>, <<"4">>>>>>),
    TypedFrame(<<<<"P","R","E","F","_","F","S","T","_","N","M">>>>,
        <<<<<<"A","l">>>>>>)
}

\* the alumni_master inputs of build_dim_constituent, besides None
AlumniTables == {
    TypedFrame(<<<<"I","D","_","N","U","M">>, <<"E","M","A","I","L","_","1">>>>,
        <<<<<<"1">>, <<"a","@","x">>>>, <<<<"3">>, <<"c","@","x">>>>>>),
    TypedFrame(<<<<"E","M","A","I","L","_","1">>>>,
        <<<<<<"a","@","x">>>>>>)
}

\* the gift_tran inputs of build_fact_gift_transaction
GiftTranLayouts == <<
    [headers |-> <<<<"G","I","F","T","_","G","R","O","U","P","_","N","U","M">>, <<"G","I","F","T","_","N","U","M">>, <<"G","I","F","T","_","T","R","A","N","_","N","U","M">>, <<"D","O","N","O","R","_","I","D">>, <<"G","I","F","T","_","T","R","A","N","_","A","M","T">>>>,
     pool |-> {<<<<"G","1">>, <<"1">>, <<"1">>, <<"D","1">>, <<"1","0">>>>,
              <<<<"G","1">>, <<"1">>, <<"2">>, <<>>, <<"x">>>>,
              <<<<"G","1">>, <<"2">>, <<"1">>, <<"D","2">>, <<"5">>>>,
              <<<<"G","1">>, <<>>, <<"1">>, <<"D","1">>, <<"7">>>>,
              <<<<"G","2">>, <<"1">>, <<"1">>, <<>>, <<>>>>}],
    [headers |-> <<<<"G","I","F","T","_","G","R","O","U","P","_","N","U","M">>, <<"G","I","F","T","_","N","U","M">>, <<"G","I","F","T","_","T","R","A","N","_","A","M","T">>>>,
     pool |-> {<<<<"G","1">>, <<"1">>, <<"1","0">>>>,
              <<<<"G","1">>, <<>>, <<"x">>>>}],
    [headers |-> <<<<"D","O","N","O","R","_","I","D">>, <<"G","I","F","T","_","T","R","A","N","_","A","M","T">>>>,
     pool |-> {<<<<"D","1">>, <<"1","0">>>>,
              <<<<>>, <<"x">>>>}]
>>

\* the gift_master inputs of build_fact_gift_transaction
GiftMasterTables == {
    TypedFrame(<<<<"G","I","F","T","_","G","R","O","U","P","_","N","U","M">>, <<"G","I","F","T","_","N","U","M">>, <<"G","I","F","T","_","A","M","T">>, <<"L","E","G","A","L","_","T","E","N","D","E","R">>>>,
        <<<<<<"G","1">>, <<"1">>, <<"1","0","0">>, <<"c","a","s","h">>>>, <<<<"G","1">>, <<"1">>, <<"x">>, <<"c","h","e","c","k">>>>, <<<<"G","2">>, <<"1">>, <<>>, <<"c","a","r","d">>>>>>),
    TypedFrame(<<<<"G","I","F","T","_","G","R","O","U","P","_","N","U","M">>, <<"G","I","F","T","_","A","M","T">>>>,
        <<<<<<"G","1">>, <<"1","0","0">>>>>>)
}

\* ten gift lines, two of them without a donor identifier
TenGiftLines == TypedFrame(<<<<"G","I","F","T","_","G","R","O","U","P","_","N","U","M">>, <<"G","I","F","T","_","N","U","M">>, <<"G","I","F","T","_","T","R","A","N","_","N","U","M">>, <<"D","O","N","O","R","_","I","D">>, <<"G","I","F","T","_","T","R","A","N","_","A","M","T">>>>,
        <<<<<<"G","1">>, <<"1">>, <<"1">>, <<"D","2">>, <<"1","0">>>>, <<<<"G","1">>, <<"2">>, <<"1">>, <<"D","3">>, <<"2","0">>>>, <<<<"G","1">>, <<"3">>, <<"1">>, <<>>, <<"3","0">>>>, <<<<"G","1">>, <<"4">>, <<"1">>, <<"D","2">>, <<"4","0">>>>, <<<<"G","1">>, <<"5">>, <<"1">>, <<"D","3">>, <<"5","0">>>>, <<<<"G","1">>, <<"6">>, <<"1">>, <<"D","1">>, <<"6","0">>>>, <<<<"G","1">>, <<"7">>, <<"1">>, <<>>, <<"7","0">>>>, <<<<"G","1">>, <<"8">>, <<"1">>, <<"D","3">>, <<"8","0">>>>, <<<<"G","1">>, <<"9">>, <<"1">>, <<"D","1">>, <<"9","0">>>>, <<<<"G","1">>, <<"1","0">>, <<"1">>, <<"D","2">>, <<"1","0","0">>>>>>)

FramesOf(layouts_) ==
    UNION {{TypedFrame(layouts_[l].headers, rows) :
                rows \in SeqsUpTo(layouts_[l].pool, MaxRows)} :
           l \in 1..Len(layouts_)}

\* the call: the builder and its arguments (None where it has none)
Call(builder, a, b, c) == [builder |-> builder, a |-> a, b |-> b, c |-> c]

BuilderCalls ==
    {Call("build_dim_constituent", n, d, al) :
        n \in FramesOf(NameLayouts), d \in DonorTables, al \in AlumniTables \cup {None}}
    \cup {Call("build_dim_alumni", a, None, None) : a \in FramesOf(AlumniLayouts)}
    \cup {Call("build_dim_campaign", a, None, None) : a \in FramesOf(CampaignLayouts)}
    \cup {Call("build_dim_gift_category", a, None, None) : a \in FramesOf(GiftCategoryLayouts)}
    \cup {Call("build_dim_solicitation", a, None, None) : a \in FramesOf(SolicitLayouts)}
    \cup {Call("build_fact_gift_transaction", g, m, None) :
        g \in FramesOf(GiftTranLayouts) \cup {TenGiftLines}, m \in GiftMasterTables}
    \cup {Call("build_fact_donor_year_summary", a, None, None) : a \in FramesOf(SummaryLayouts)}
    \cup {Call("build_fact_donor_campaign_summary", a, None, None) : a \in FramesOf(SummaryLayouts)}

InitBuild ==
    /\ pc = "call"
    /\ src \in BuilderCalls
    /\ df = EmptyFrame /\ csv = EmptyFrame
    /\ IdleName /\ IdleLog
    /\ IdleMain

\* the builder has returned r, or raised; src holds its arguments as they
\* are after the call
Return(r) ==
    /\ df' = r.df
    /\ src' = Call(src.builder, r.args.a, r.args.b, r.args.c)
    /\ parsing_issues' = r.issues
    /\ console' = console \o r.console
    /\ pc' = "built"
    /\ UNCHANGED <<mainVars, name, canon, canon2, csv>>

BuildDimConstituent ==
    /\ pc = "call" /\ src.builder = "build_dim_constituent"
    /\ Return(build_dim_constituent(src.a, src.b, src.c, parsing_issues))

BuildDimAlumni ==
    /\ pc = "call" /\ src.builder = "build_dim_alumni"
    /\ Return(build_dim_alumni(src.a, parsing_issues))

BuildDimCampaign ==
    /\ pc = "call" /\ src.builder = "build_dim_campaign"
    /\ Return(build_dim_campaign(src.a, parsing_issues))

BuildDimGiftCategory ==
    /\ pc = "call" /\ src.builder = "build_dim_gift_category"
    /\ Return(build_dim_gift_category(src.a, parsing_issues))

BuildDimSolicitation ==
    /\ pc = "call" /\ src.builder = "build_dim_solicitation"
    /\ Return(build_dim_solicitation(src.a, parsing_issues))

BuildFactGiftTransaction ==
    /\ pc = "call" /\ src.builder = "build_fact_gift_transaction"
    /\ Return(build_fact_gift_transaction(src.a, src.b, parsing_issues))

BuildFactDonorYearSummary ==
    /\ pc = "call" /\ src.builder = "build_fact_donor_year_summary"
    /\ Return(build_fact_donor_year_summary(src.a, parsing_issues))

BuildFactDonorCampaignSummary ==
    /\ pc = "call" /\ src.builder = "build_fact_donor_campaign_summary"
    /\ Return(build_fact_donor_campaign_summary(src.a, parsing_issues))

NextBuild ==
    \/ BuildDimConstituent
    \/ BuildDimAlumni
    \/ BuildDimCampaign
    \/ BuildDimGiftCategory
    \/ BuildDimSolicitation
    \/ BuildFactGiftTransaction
    \/ BuildFactDonorYearSummary
    \/ BuildFactDonorCampaignSummary

SpecBuild == InitBuild /\ [][NextBuild]_vars

\* a key value that is neither null nor the empty string
Present(v) == notna(v) /\ v # Str(<<>>)

\* the rows of gift_tran the filters keep: those whose DONOR_ID and
\* GIFT_NUM, where gift_tran has the column, are present
KeptGiftLines(tran) ==
    {i \in 1..tran.n :
        /\ HasCol(tran, DONOR_ID) => Present(Cell(tran, DONOR_ID, i))
        /\ HasCol(tran, GIFT_NUM) => Present(Cell(tran, GIFT_NUM, i))}

RemovedDonorMsgs ==
    SelectSeq(console, LAMBDA m : m.msg = "  Removed {n} rows with missing DONOR_ID")

\* C5: build_fact_gift_transaction returns no row whose DONOR_ID or
\* GIFT_NUM is null or empty, keeps every other row of the projected
\* transaction table, in order, and prints "Removed n rows with missing
\* DONOR_ID" exactly when n > 0 rows lack the donor identifier.
C5_MissingKeysRemoved ==
    (pc = "built" /\ src.builder = "build_fact_gift_transaction" /\ ~Raised(df)) =>
        LET tran    == src.a
            kept    == RowsWhere(tran.n, KeptGiftLines(tran))
            noDonor == {i \in 1..tran.n : ~Present(Cell(tran, DONOR_ID, i))}
        IN  /\ HasCol(df, DONOR_ID) => \A r \in 1..df.n : Present(Cell(df, DONOR_ID, r))
            /\ HasCol(df, GIFT_NUM) => \A r \in 1..df.n : Present(Cell(df, GIFT_NUM, r))
            /\ df.n = Len(kept)
            /\ \A r \in 1..df.n : \A c \in ColumnSet(tran) :
                  (InList(c, tran_cols) /\ InList(c, ID_CODE_COLUMNS)) =>
                      Cell(df, c, r) = Cell(tran, c, kept[r])
            /\ HasCol(tran, DONOR_ID) =>
                  RemovedDonorMsgs =
                      IF noDonor # {}
                      THEN <<Msg("  Removed {n} rows with missing DONOR_ID",
                                 Cardinality(noDonor))>>
                      ELSE <<>>

\* ten gift lines, two without a donor identifier: eight rows and the
\* message with n = 2
C5_Witness ==
    /\ pc = "built"
    /\ src.builder = "build_fact_gift_transaction"
    /\ src.a = TenGiftLines
    /\ src.a.n = 10
    /\ Cardinality({i \in 1..10 : Cell(src.a, DONOR_ID, i) = Str(<<>>)}) = 2
    /\ df.n = 8
    /\ RemovedDonorMsgs = <<Msg("  Removed {n} rows with missing DONOR_ID", 2)>>

\* the declared key of the dimension a builder builds
DimensionKey(builder) ==
    CASE builder = "build_dim_constituent"   -> <<ID_NUM>>
      [] builder = "build_dim_alumni"        -> <<ID_NUM>>
      [] builder = "build_dim_campaign"      -> <<CAMPAIGN_CDE>>
      [] builder = "build_dim_gift_category" -> <<APPID, CAT_COMP_1, CAT_COMP_2>>
      [] builder = "build_dim_solicitation"  -> <<SOLICIT_CDE>>

DimensionBuilders == {"build_dim_constituent", "build_dim_alumni", "build_dim_campaign",
                      "build_dim_gift_category", "build_dim_solicitation"}

\* the columns a dimension takes from its first argument
ProjectionOf(builder) ==
    CASE builder = "build_dim_constituent"   -> name_cols
      [] builder = "build_dim_alumni"        -> all_desired_cols
      [] builder = "build_dim_campaign"      -> campaign_cols_to_keep
      [] builder = "build_dim_gift_category" -> gift_category_cols_to_keep
      [] builder = "build_dim_solicitation"  -> solicit_cols_to_keep

\* the first row of d with the key value key
FirstWithKey(d, cols, key) ==
    CHOOSE i \in 1..d.n :
        /\ KeyAt(d, cols, i) = key
        /\ \A j \in 1..(i - 1) : KeyAt(d, cols, j) # key

\* C6: a dimension builder called on a table with duplicate keys returns
\* one row for each key value of its input, in the order the values first
\* occur, and each row carries the text columns of the first input row
\* with its key.
C6_DimensionUniqueOnKey ==
    (/\ pc = "built" /\ src.builder \in DimensionBuilders /\ ~Raised(df)
     /\ \A k \in 1..Len(DimensionKey(src.builder)) :
            HasCol(src.a, DimensionKey(src.builder)[k])) =>
        LET key    == DimensionKey(src.builder)
            inp    == src.a
            firsts == RowsWhere(inp.n,
                         {i \in 1..inp.n : \A j \in 1..(i - 1) :
                             KeyAt(inp, key, j) # KeyAt(inp, key, i)})
        IN  /\ \A r, s \in 1..df.n : r < s => KeyAt(df, key, r) # KeyAt(df, key, s)
            /\ df.n = Len(firsts)
            /\ \A r \in 1..df.n :
                  /\ KeyAt(df, key, r) = KeyAt(inp, key, firsts[r])
                  /\ \A c \in ColumnSet(inp) :
                        (InList(c, ProjectionOf(src.builder))
                            /\ Col(inp, c).dtype = "object"
                            /\ Col(df, c).dtype = "object") =>
                          Cell(df, c, r) = Cell(inp, c, FirstWithKey(inp, key, KeyAt(df, key, r)))

CAMPAIGN_DESC == campaign_cols_to_keep[2]

\* a campaign code three times, with three descriptions: one row, with the
\* first description
C6_Witness ==
    /\ pc = "built"
    /\ src.builder = "build_dim_campaign"
    /\ HasCol(src.a, CAMPAIGN_CDE)
    /\ src.a.n = 3
    /\ \A i \in 1..3 : Cell(src.a, CAMPAIGN_CDE, i) = Str(<<"C", "1">>)
    /\ Cell(src.a, CAMPAIGN_DESC, 2) = Str(<<"s","e","c","o","n","d">>)
    /\ Cell(src.a, CAMPAIGN_DESC, 3) = Str(<<"t","h","i","r","d">>)
    /\ df.n = 1
    /\ Cell(df, CAMPAIGN_DESC, 1) = Str(<<"f","i","r","s","t">>)

\* C11: a dimension builder does not raise when columns of its projection
\* list, its key column included, are absent from its input; it returns
\* the columns of the list that the input has.
C11_NoMissingColumnFailure ==
    (pc = "built" /\ src.builder \in DimensionBuilders) =>
        /\ ~Raised(df)
        /\ \A k \in 1..Len(ProjectionOf(src.builder)) :
              HasCol(df, ProjectionOf(src.builder)[k])
                  <=> HasCol(src.a, ProjectionOf(src.builder)[k])

\* C12: when a column of the table's declared natural key is absent at
\* deduplication time, only some columns of a composite key being present
\* included, apply_global_cleanup returns the rows that reached the
\* deduplication, unchanged and in order.
C12_DedupSkippedOnMissingKey ==
    (/\ pc = "cleaned"
     /\ csv.table \in DOMAIN NATURAL_KEYS
     /\ ~KeyPresent(CleanupBeforeDedup(src))) =>
        df = CleanupBeforeDedup(src)

-----------------------------------------------------------------------------
(* Specification SpecMain: one run of main(), over the source files that   *)
(* are there and the input root that may not be                            *)

\* SOURCE_FILES.items(), in the order of the dict
SOURCE_FILES == <<
    [table |-> "alumni_master", filename |-> "ALUMNI_MASTER.csv"],
    [table |-> "campaign", filename |-> "CAMPAIGN.csv"],
    [table |-> "donor_camp_sum", filename |-> "DONOR_CAMP_SUM.csv"],
    [table |-> "donor_master", filename |-> "DONOR_MASTER.csv"],
    [table |-> "donor_year_sum", filename |-> "DONOR_YEAR_SUM.csv"],
    [table |-> "gift_category", filename |-> "GIFT_CATEGORY.csv"],
    [table |-> "gift_master", filename |-> "GIFT_MASTER.csv"],
    [table |-> "gift_tran", filename |-> "GIFT_TRAN.csv"],
    [table |-> "name_master", filename |-> "NAME_MASTER.csv"],
    [table |-> "solicit_def", filename |-> "SOLICIT_DEF.csv"]
>>

\* the content of each source file, when it is there
MainFiles == [
    alumni_master |-> FileOf("alumni_master",
        <<<<"I","D","_","N","U","M">>, <<"E","M","A","I","L","_","1">>>>,
        <<<<<<"1">>, <<"a","@","x">>>>, <<<<"3">>, <<"c","@","x">>>>>>),
    campaign |-> FileOf("campaign",
        <<<<"C","A","M","P","A","I","G","N","_","C","D","E">>, <<"C","A","M","P","A","I","G","N","_","D","E","S","C">>, <<"C","A","M","P","A","N","_","A","M","T","_","G","O","A","L">>>>,
        <<<<<<"C","1">>, <<"f","i","r","s","t">>, <<"1","0","0">>>>, <<<<"C","2">>, <<"s","e","c","o","n","d">>, <<"x">>>>>>),
    donor_camp_sum |-> FileOf("donor_camp_sum",
        <<<<"I","D","_","N","U","M">>, <<"C","A","M","P","A","I","G","N","_","C","D","E">>, <<"Y","R","_","C","D","E">>, <<"Y","E","A","R","_","T","Y","P","E">>, <<"G","I","F","T","S","_","A","M","T">>>>,
        <<<<<<"1">>, <<"C","1">>, <<"2","0","2","0">>, <<"F">>, <<"x">>>>>>),
    donor_master |-> FileOf("donor_master",
        <<<<"I","D","_","N","U","M">>, <<"P","R","E","F","_","F","S","T","_","N","M">>, <<"F","I","R","S","T","_","G","I","F","T","_","A","M","T">>>>,
        <<<<<<"1">>, <<"A","l">>, <<"1","0">>>>, <<<<"3">>, <<"C","y">>, <<"x">>>>>>),
    donor_year_sum |-> FileOf("donor_year_sum",
        <<<<"I","D","_","N","U","M">>, <<"Y","R","_","C","D","E">>, <<"Y","E","A","R","_","T","Y","P","E">>, <<"G","I","F","T","S","_","N","U","M">>>>,
        <<<<<<"1">>, <<"2","0","2","0">>, <<"F">>, <<"3">>>>>>),
    gift_category |-> FileOf("gift_category",
        <<<<"A","P","P","I","D">>, <<"C","A","T","_","C","O","M","P","_","1">>, <<"C","A","T","_","C","O","M","P","_","2">>, <<"G","I","F","T","_","C","A","T","_","D","E","S","C">>>>,
        <<<<<<"1">>, <<"A">>, <<"B">>, <<"f","i","r","s","t">>>>>>),
    gift_master |-> FileOf("gift_master",
        <<<<"G","I","F","T","_","G","R","O","U","P","_","N","U","M">>, <<"G","I","F","T","_","N","U","M">>, <<"G","I","F","T","_","A","M","T">>>>,
        <<<<<<"G","1">>, <<"1">>, <<"1","0","0">>>>>>),
    gift_tran |-> FileOf("gift_tran",
        <<<<"G","I","F","T","_","G","R","O","U","P","_","N","U","M">>, <<"G","I","F","T","_","N","U","M">>, <<"G","I","F","T","_","T","R","A","N","_","N","U","M">>, <<"D","O","N","O","R","_","I","D">>, <<"G","I","F","T","_","T","R","A","N","_","A","M","T">>, <<"G","I","F","T","_","D","T","E">>>>,
        <<<<<<"G","1">>, <<"1">>, <<"1">>, <<"D","1">>, <<"1","0">>, <<"2","0","2","0","-","0","1","-","0","2">>>>, <<<<"G","1">>, <<"1">>, <<"2">>, <<>>, <<"x">>, <<"x","y","z">>>>>>),
    name_master |-> FileOf("name_master",
        <<<<"I","D","_","N","U","M">>, <<"L","A","S","T","_","N","A","M","E">>>>,
        <<<<<<"1">>, <<"A","n","n">>>>, <<<<"2">>, <<"C","y">>>>>>),
    solicit_def |-> FileOf("solicit_def",
        <<<<"S","O","L","I","C","I","T","_","C","D","E">>, <<"D","E","S","C","R","I","P","T","I","O","N">>>>,
        <<<<<<"A">>, <<"f","i","r","s","t">>>>>>)
]

\* dict[key] = value
SetItem(dict, key, value) ==
    [k \in DOMAIN dict \cup {key} |-> IF k = key THEN value ELSE dict[k]]

\* the plan with alumni_master asked for by DimConstituent as well
OutputPlanAlumniRequired == <<
    [output |-> "DimConstituent",           needs |-> {"name_master", "donor_master", "alumni_master"}],
    [output |-> "DimAlumni",                needs |-> {"alumni_master"}],
    [output |-> "DimCampaign",              needs |-> {"campaign"}],
    [output |-> "DimGiftCategory",          needs |-> {"gift_category"}],
    [output |-> "DimSolicitation",          needs |-> {"solicit_def"}],
    [output |-> "FactGiftTransaction",      needs |-> {"gift_tran", "gift_master"}],
    [output |-> "FactDonorYearSummary",     needs |-> {"donor_year_sum"}],
    [output |-> "FactDonorCampaignSummary", needs |-> {"donor_camp_sum"}]
>>

\* the output tables of steps 2 and 3 in the order main() builds them, each
\* with the tables its "if" asks dataframes for
OutputPlan == <<
    [output |-> "DimConstituent",           needs |-> {"name_master", "donor_master"}],
    [output |-> "DimAlumni",                needs |-> {"alumni_master"}],
    [output |-> "DimCampaign",              needs |-> {"campaign"}],
    [output |-> "DimGiftCategory",          needs |-> {"gift_category"}],
    [output |-> "DimSolicitation",          needs |-> {"solicit_def"}],
    [output |-> "FactGiftTransaction",      needs |-> {"gift_tran", "gift_master"}],
    [output |-> "FactDonorYearSummary",     needs |-> {"donor_year_sum"}],
    [output |-> "FactDonorCampaignSummary", needs |-> {"donor_camp_sum"}]
>>

\* the builder call main() makes for an output table; dataframes.get(
\* "alumni_master") is None when the table was not loaded
BuildOutputTable(output, frames, issues) ==
    CASE output = "DimConstituent" ->
            build_dim_constituent(frames["name_master"], frames["donor_master"],
                IF "alumni_master" \in DOMAIN frames
                THEN frames["alumni_master"] ELSE None,
                issues)
      [] output = "DimAlumni" -> build_dim_alumni(frames["alumni_master"], issues)
      [] output = "DimCampaign" -> build_dim_campaign(frames["campaign"], issues)
      [] output = "DimGiftCategory" ->
            build_dim_gift_category(frames["gift_category"], issues)
      [] output = "DimSolicitation" ->
            build_dim_solicitation(frames["solicit_def"], issues)
      [] output = "FactGiftTransaction" ->
            build_fact_gift_transaction(frames["gift_tran"], frames["gift_master"], issues)
      [] output = "FactDonorYearSummary" ->
            build_fact_donor_year_summary(frames["donor_year_sum"], issues)
      [] output = "FactDonorCampaignSummary" ->
            build_fact_donor_campaign_summary(frames["donor_camp_sum"], issues)

\* BASE_DIR is there with any of the ten files in it, or is not there; the
\* module's parsing_issues is empty or holds what an earlier call left
InitMain ==
    /\ pc = "main"
    /\ files \in {[base_exists |-> FALSE, present |-> {}]}
           \cup {[base_exists |-> TRUE, present |-> P] :
                    P \in SUBSET {SOURCE_FILES[i].table : i \in 1..Len(SOURCE_FILES)}}
    /\ dataframes = NoTables /\ output_tables = NoTables
    /\ exported = {} /\ step = 0
    /\ parsing_issues \in PriorIssues
    /\ console = <<>>
    /\ IdleName /\ IdleTables

\* main() going on to step 1 whether BASE_DIR exists or not
ValidateWarnOnly ==
    /\ pc = "main"
    /\ console' = console \o <<Msg("ADVANCEMENT DATA CLEANING PIPELINE", 0)>>
    /\ pc' = "load" /\ step' = 1
    /\ UNCHANGED <<name, canon, canon2, csv, src, df, parsing_issues,
                   files, dataframes, output_tables, exported>>

\* if not BASE_DIR.exists(): raise FileNotFoundError(...)
Validate ==
    /\ pc = "main"
    /\ console' = console \o <<Msg("ADVANCEMENT DATA CLEANING PIPELINE", 0)>>
    /\ IF files.base_exists
       THEN pc' = "load" /\ step' = 1
       ELSE pc' = "FileNotFoundError" /\ step' = step
    /\ UNCHANGED <<name, canon, canon2, csv, src, df, parsing_issues,
                   files, dataframes, output_tables, exported>>

\* one turn of the loop of load_all_source_files
LoadSourceFile ==
    /\ pc = "load"
    /\ LET table    == SOURCE_FILES[step].table
           filename == SOURCE_FILES[step].filename
       IN  IF table \in files.present
           THEN LET loaded  == load_csv_with_strings(MainFiles[table], ID_CODE_COLUMNS)
                    cleaned == apply_global_cleanup(loaded, table)
                    parsed  == parse_date_columns(cleaned, parsing_issues)
                IN  /\ dataframes' = SetItem(dataframes, table, parsed.df)
                    /\ parsing_issues' = parsed.issues
                    /\ console' = console \o
                          <<Msg("Loading {filename}...", filename),
                            Msg("  Loaded {n} rows", parsed.df.n)>>
           ELSE /\ console' = console \o
                      <<Msg("WARNING: File not found: {filepath}", filename)>>
                /\ UNCHANGED <<dataframes, parsing_issues>>
    /\ IF step = Len(SOURCE_FILES)
       THEN pc' = "loaded" /\ step' = 0
       ELSE pc' = "load" /\ step' = step + 1
    /\ UNCHANGED <<name, canon, canon2, csv, src, df, files, output_tables, exported>>

\* missing = [t for t in required_tables if t not in dataframes]
CheckRequired ==
    /\ pc = "loaded"
    /\ LET required_tables == <<"name_master", "donor_master", "gift_tran", "gift_master">>
           missing == SelectSeq(required_tables, LAMBDA t : t \notin DOMAIN dataframes)
       IN  console' = IF missing # <<>>
                      THEN Append(console, Msg("WARNING: Missing required tables: {missing}", missing))
                      ELSE console
    /\ pc' = "build" /\ step' = 1
    /\ UNCHANGED <<name, canon, canon2, csv, src, df, parsing_issues,
                   files, dataframes, output_tables, exported>>

\* output_tables[output] = build_...(...), the builder having returned r or
\* raised; next is where main() goes on after the assignment
Assign(output, r, next) ==
    /\ parsing_issues' = r.issues
    /\ console' = console \o r.console
    /\ IF Raised(r.df)
       THEN pc' = "KeyError" /\ UNCHANGED output_tables
       ELSE /\ pc' = next
            /\ output_tables' = SetItem(output_tables, output, r.df)

\* one "if ... in dataframes: output_tables[...] = build_...(...)" of steps
\* 2 and 3; an exception of the builder ends the run
BuildOutput ==
    /\ pc = "build"
    /\ LET plan == OutputPlan[step]
           next == IF step = Len(OutputPlan) THEN "export" ELSE "build"
       IN  IF plan.needs \subseteq DOMAIN dataframes
           THEN Assign(plan.output,
                       BuildOutputTable(plan.output, dataframes, parsing_issues), next)
           ELSE pc' = next /\ UNCHANGED <<parsing_issues, console, output_tables>>
    /\ step' = IF step = Len(OutputPlan) THEN 0 ELSE step + 1
    \* the builders write to copies only: dataframes keeps its tables
    /\ UNCHANGED <<name, canon, canon2, csv, src, df, files, dataframes, exported>>

\* export_tables(output_tables, output_dir): one .xlsx for each table
Export ==
    /\ pc = "export"
    /\ exported' = DOMAIN output_tables
    /\ console' = Append(console, Msg("Exporting tables to {output_dir}...", 0))
    /\ pc' = "summary"
    /\ UNCHANGED <<name, canon, canon2, csv, src, df, parsing_issues,
                   files, dataframes, output_tables, step>>

\* print_summary(output_tables): the row counts and then the issues, if
\* the dict has any bucket
Summary ==
    /\ pc = "summary"
    /\ console' = console \o
          <<Msg("SUMMARY", 0),
            IF DOMAIN parsing_issues # {}
            THEN Msg("Parsing/Conversion Issues:", parsing_issues)
            ELSE Msg("No parsing or conversion issues detected.", 0),
            Msg("Pipeline completed successfully!", 0)>>
    /\ pc' = "done"
    /\ UNCHANGED <<name, canon, canon2, csv, src, df, parsing_issues,
                   files, dataframes, output_tables, exported, step>>

NextMain ==
    \/ Validate
    \/ LoadSourceFile
    \/ CheckRequired
    \/ BuildOutput
    \/ Export
    \/ Summary

SpecMain == InitMain /\ [][NextMain]_vars

\* the sources each output table requires
RequiredSources == [
    DimConstituent           |-> {"name_master", "donor_master"},
    DimAlumni                |-> {"alumni_master"},
    DimCampaign              |-> {"campaign"},
    DimGiftCategory          |-> {"gift_category"},
    DimSolicitation          |-> {"solicit_def"},
    FactGiftTransaction      |-> {"gift_tran", "gift_master"},
    FactDonorYearSummary     |-> {"donor_year_sum"},
    FactDonorCampaignSummary |-> {"donor_camp_sum"}
]

FileWarnings ==
    SelectSeq(console, LAMBDA m : m.msg = "WARNING: File not found: {filepath}")

\* the guards of the steps of main(): the positions a step leaves from
MainCanStep ==
    \/ pc \in {"main", "loaded", "export", "summary"}
    \/ pc = "load" /\ step \in 1..Len(SOURCE_FILES)
    \/ pc = "build" /\ step \in 1..Len(OutputPlan)

\* C13: with the input root there, main() raises for no set of missing
\* source files and every step short of the end has a next step, through
\* the export to the summary; each missing file leaves one warning and no
\* loaded table; an output table is built exactly when the sources it
\* requires were loaded.
C13_MissingFilesTolerated ==
    files.base_exists =>
        /\ pc \notin {"FileNotFoundError", "KeyError"}
        /\ pc # "done" => MainCanStep
        /\ pc \in {"loaded", "build", "export", "summary", "done"} =>
              /\ DOMAIN dataframes = files.present
              /\ Len(FileWarnings) = Len(SOURCE_FILES) - Cardinality(files.present)
        /\ pc \in {"export", "summary", "done"} =>
              DOMAIN output_tables =
                  {o \in DOMAIN RequiredSources :
                      RequiredSources[o] \subseteq files.present}
        /\ pc = "done" =>
              /\ exported = DOMAIN output_tables
              /\ \E i \in 1..Len(console) : console[i].msg = "SUMMARY"

\* a run with only NAME_MASTER.csv, DONOR_MASTER.csv and GIFT_TRAN.csv
\* there: DimConstituent alone is built and exported
C13_Witness ==
    /\ pc = "done"
    /\ files.present = {"name_master", "donor_master", "gift_tran"}
    /\ Len(FileWarnings) = 7
    /\ DOMAIN output_tables = {"DimConstituent"}
    /\ exported = {"DimConstituent"}
    /\ ~HasCol(output_tables["DimConstituent"], IS_ALUMNI)

\* C14: with the input root missing the only step of main() is the one
\* that raises FileNotFoundError: nothing is loaded, built, exported or
\* summarised and parsing_issues is left as it was.
C14_AbortsBeforeLoading ==
    [][~files.base_exists =>
          /\ pc = "main" /\ pc' = "FileNotFoundError"
          /\ dataframes' = NoTables /\ output_tables' = NoTables
          /\ exported' = {}
          /\ parsing_issues' = parsing_issues
          /\ \A i \in 1..Len(console') :
                console'[i].msg = "ADVANCEMENT DATA CLEANING PIPELINE"]_vars

\* the run has ended in FileNotFoundError with the log an earlier call left
C14_Witness ==
    /\ pc = "FileNotFoundError"
    /\ ~files.base_exists
    /\ dataframes = NoTables /\ output_tables = NoTables /\ exported = {}
    /\ parsing_issues =
          Record(NoIssues, "numeric_coercion", CoercionEntry(<<"G","I","F","T","_","A","M","T">>, 1))

\* C15: the result of to_upper_snake_case, for any raw column name, holds
\* no whitespace character and no two underscores in a row.
C15_NoWhitespaceInNames ==
    pc # "name_raw" =>
        /\ \A i \in 1..Len(canon) : ~IsSpace(canon[i])
        /\ \A i \in 1..(Len(canon) - 1) : ~(canon[i] = "_" /\ canon[i + 1] = "_")

LEGAL_TENDER == master_cols[8]

\* C16: in build_fact_gift_transaction the table right after the left join
\* has the rows of the projected transaction table, as many and in the
\* same order, whatever the gift-header table holds; each row carries the
\* text columns of the first header row with its (GIFT_GROUP_NUM,
\* GIFT_NUM), or nulls when there is none.
C16_JoinDoesNotFanOut ==
    (pc = "built" /\ src.builder = "build_fact_gift_transaction") =>
        LET j      == JoinGiftMaster(src.a, src.b, NoIssues)
            header == src.b
        IN  ~Raised(j.df) =>
              /\ j.df.n = j.before.n
              /\ \A r \in 1..j.df.n :
                    /\ \A c \in ColumnSet(j.before) :
                          Cell(j.df, c, r) = Cell(j.before, c, r)
                    /\ (\A k \in 1..Len(join_keys) : HasCol(header, join_keys[k])) =>
                          \A c \in ColumnSet(header) :
                              (/\ InList(c, master_cols) /\ ~InList(c, join_keys)
                               /\ Col(header, c).dtype = "object"
                               /\ Col(j.df, c).dtype = "object") =>
                                  LET key == KeyAt(j.before, join_keys, r)
                                  IN  IF \E i \in 1..header.n : KeyAt(header, join_keys, i) = key
                                      THEN Cell(j.df, c, r) =
                                               Cell(header, c, FirstWithKey(header, join_keys, key))
                                      ELSE isna(Cell(j.df, c, r))

\* three gift lines, two of them of gift (G1, 1), joined with a header
\* table that has two rows for (G1, 1): three rows, the first header's
\* tender on both
C16_Witness ==
    /\ pc = "built"
    /\ src.builder = "build_fact_gift_transaction"
    /\ src.a.n = 3
    /\ HasCol(src.a, GIFT_NUM) /\ HasCol(src.a, GIFT_GROUP_NUM)
    /\ HasCol(src.b, GIFT_NUM) /\ src.b.n = 3
    /\ KeyAt(src.b, join_keys, 1) = KeyAt(src.b, join_keys, 2)
    /\ KeyAt(src.a, join_keys, 1) = KeyAt(src.b, join_keys, 1)
    /\ KeyAt(src.a, join_keys, 2) = KeyAt(src.b, join_keys, 1)
    /\ KeyAt(src.a, join_keys, 3) = <<Str(<<"G","1">>), Str(<<"2">>)>>
    /\ LET j == JoinGiftMaster(src.a, src.b, NoIssues)
       IN  /\ j.df.n = 3
           /\ Cell(j.df, LEGAL_TENDER, 1) = Str(<<"c","a","s","h">>)
           /\ Cell(j.df, LEGAL_TENDER, 2) = Str(<<"c","a","s","h">>)
           /\ isna(Cell(j.df, LEGAL_TENDER, 3))

\* C17: a call of a dimension or fact builder leaves every table it was
\* given with the columns, dtypes, rows and values it had.
C17_InputsNotMutated == [][src' = src]_vars

\* build_fact_donor_year_summary has coerced GIFTS_NUM, losing a value, in
\* the table it returned while the table it was given still holds the text
C17_Witness ==
    LET GIFTS_NUM == <<"G","I","F","T","S","_","N","U","M">>
    IN  /\ pc = "built"
        /\ src.builder = "build_fact_donor_year_summary"
        /\ src.a.n = 2
        /\ Cell(src.a, GIFTS_NUM, 1) = Str(<<"x">>)
        /\ Col(src.a, GIFTS_NUM).dtype = "object"
        /\ isna(Cell(df, GIFTS_NUM, 1))
        /\ Col(df, GIFTS_NUM).dtype = "float64"

\* C18: in every step of a run each bucket of parsing_issues keeps its
\* entries, in place, new ones going to the end, and no bucket goes away;
\* the table a load or a builder produces is the one it produces with an
\* empty log.
C18_LogAppendOnly ==
    [][/\ \A b \in DOMAIN parsing_issues :
             /\ b \in DOMAIN parsing_issues'
             /\ Len(parsing_issues'[b]) >= Len(parsing_issues[b])
             /\ SubSeq(parsing_issues'[b], 1, Len(parsing_issues[b])) = parsing_issues[b]
       /\ (pc = "load" /\ SOURCE_FILES[step].table \in files.present) =>
             LET table == SOURCE_FILES[step].table
             IN  dataframes'[table] =
                     parse_date_columns(
                         apply_global_cleanup(
                             load_csv_with_strings(MainFiles[table], ID_CODE_COLUMNS),
                             table),
                         NoIssues).df
       /\ (pc = "build" /\ OutputPlan[step].needs \subseteq DOMAIN dataframes) =>
             /\ pc' # "KeyError"
             /\ output_tables'[OutputPlan[step].output] =
                     BuildOutputTable(OutputPlan[step].output, dataframes, NoIssues).df
      ]_vars

\* a run that started with one coercion entry in the log has ended with
\* that entry first and the run's own entries after it
C18_Witness ==
    /\ pc = "done"
    /\ "campaign" \in files.present /\ "donor_camp_sum" \in files.present
    /\ Len(parsing_issues["numeric_coercion"]) >= 3
    /\ parsing_issues["numeric_coercion"][1] =
          CoercionEntry(<<"G","I","F","T","_","A","M","T">>, 1)
    /\ parsing_issues["numeric_coercion"][2] =
          CoercionEntry(<<"C","A","M","P","A","N","_","A","M","T","_","G","O","A","L">>, 1)

\* C19: after apply_global_cleanup every value of an identifier column is
\* a string without leading or trailing whitespace and is not "nan"; it is
\* the empty string where the file's cell was missing and the cell's text,
\* stripped, where it was not.
C19_IdentifierValuesKept ==
    pc = "cleaned" =>
        LET pre == CleanupBeforeDedup(src)
        IN  \A k \in 1..Len(csv.cols) :
                LET col == to_upper_snake_case(csv.cols[k].header) IN
                (InList(col, ID_CODE_COLUMNS) /\ HasCol(pre, col)) =>
                    \A i \in 1..pre.n :
                        LET v    == Cell(pre, col, i)
                            text == csv.cols[k].texts[i]
                        IN  /\ v.t = "str"
                            /\ v.s = StrStrip(v.s)
                            /\ v.s # <<"n","a","n">>
                            /\ text \in NaTexts => v.s = <<>>
                            /\ text \notin NaTexts => v.s = StrStrip(text)

\* C20: build_dim_constituent returns one row for each ID_NUM of
\* name_master, in the order the values first occur there, and no other
\* row, whatever donor_master holds; with an alumni table that has ID_NUM,
\* IS_ALUMNI of a row tells whether its ID_NUM is in that table, and
\* without one there is no IS_ALUMNI column.
C20_ConstituentLeftJoin ==
    (pc = "built" /\ src.builder = "build_dim_constituent" /\ ~Raised(df)) =>
        LET names  == src.a
            alumni == src.c
            firsts == RowsWhere(names.n,
                         {i \in 1..names.n : \A j \in 1..(i - 1) :
                             Cell(names, ID_NUM, j) # Cell(names, ID_NUM, i)})
        IN  /\ df.n = Len(firsts)
            /\ \A r \in 1..df.n : Cell(df, ID_NUM, r) = Cell(names, ID_NUM, firsts[r])
            /\ IF alumni # None /\ HasCol(alumni, ID_NUM)
               THEN /\ HasCol(df, IS_ALUMNI)
                    /\ \A r \in 1..df.n :
                          Cell(df, IS_ALUMNI, r) =
                              Bool(\E j \in 1..alumni.n :
                                      Cell(alumni, ID_NUM, j) = Cell(df, ID_NUM, r))
               ELSE ~HasCol(df, IS_ALUMNI)

\* names 1, 1, 2 joined with donors 1, 1, 3 and alumni 1, 3: the rows 1
\* and 2, the first an alumnus, the second not
C20_Witness ==
    /\ pc = "built"
    /\ src.builder = "build_dim_constituent"
    /\ HasCol(src.a, ID_NUM) /\ HasCol(src.b, ID_NUM)
    /\ src.c # None /\ HasCol(src.c, ID_NUM)
    /\ Col(src.a, ID_NUM).vals = <<Str(<<"1">>), Str(<<"1">>), Str(<<"2">>)>>
    /\ Col(src.b, ID_NUM).vals = <<Str(<<"1">>), Str(<<"1">>), Str(<<"3">>)>>
    /\ Col(src.c, ID_NUM).vals = <<Str(<<"1">>), Str(<<"3">>)>>
    /\ ~Raised(df)
    /\ Col(df, ID_NUM).vals = <<Str(<<"1">>), Str(<<"2">>)>>
    /\ Col(df, IS_ALUMNI).vals = <<Bool(TRUE), Bool(FALSE)>>

=============================================================================
